---- MODULE Spec2Model ----
(***************************************************************************)
(* The agent host of src/main.py: one run of run_agent, from the connection *)
(* of the two MCP servers through the policy guard and the tool-calling     *)
(* loop to the cleanup in the finally block and the process exit code.      *)
(* Text values (instructions, tool names, decisions) are sequences of       *)
(* one-character strings, so that the regular expression, the keyword       *)
(* search and the case conversions are computed and not assumed.            *)
(***************************************************************************)
EXTENDS Integers, Sequences, FiniteSets, TLC

(* ------------------------------ text ----------------------------------- *)

Uppers == <<"A","B","C","D","E","F","G","H","I","J","K","L","M",
            "N","O","P","Q","R","S","T","U","V","W","X","Y","Z">>

Lowers == <<"a","b","c","d","e","f","g","h","i","j","k","l","m",
            "n","o","p","q","r","s","t","u","v","w","x","y","z">>

Digits == {"0","1","2","3","4","5","6","7","8","9"}

UpperSet == { Uppers[i] : i \in 1..Len(Uppers) }

LowerSet == { Lowers[i] : i \in 1..Len(Lowers) }

IsUpper(c) == c \in UpperSet

IsLower(c) == c \in LowerSet

\* the lower-case letter of each upper-case letter, and the converse
ToLower == [c \in UpperSet |-> Lowers[CHOOSE i \in 1..Len(Uppers) : Uppers[i] = c]]

ToUpper == [c \in LowerSet |-> Uppers[CHOOSE i \in 1..Len(Lowers) : Lowers[i] = c]]

\* str.lower(), character by character
lower(s) == [i \in 1..Len(s) |-> IF IsUpper(s[i]) THEN ToLower[s[i]] ELSE s[i]]

\* str.upper(), character by character
upper(s) == [i \in 1..Len(s) |-> IF IsLower(s[i]) THEN ToUpper[s[i]] ELSE s[i]]

\* the regular expression class \w
IsWordChar(c) == IsUpper(c) \/ IsLower(c) \/ c \in Digits \/ c = "_"

\* the regular expression assertion \b between positions i-1 and i of s
WordBoundary(s, i) ==
    LET before == i > 1 /\ i - 1 <= Len(s) /\ IsWordChar(s[i - 1])
        after  == i >= 1 /\ i <= Len(s) /\ IsWordChar(s[i])
    IN  before # after

\* k in s
Contains(s, k) ==
    \E i \in 1..(Len(s) - Len(k) + 1) : SubSeq(s, i, i + Len(k) - 1) = k

\* s.startswith(p)
startswith(s, p) == Len(s) >= Len(p) /\ SubSeq(s, 1, Len(p)) = p

OrdPrefix == <<"o", "r", "d", "-">>

\* re.search(r"\bORD-\d+\b", s, flags=re.IGNORECASE): a match starts at i and
\* takes n >= 1 digits
OrdMatchAt(s, i, n) ==
    /\ i + 3 + n <= Len(s)
    /\ WordBoundary(s, i)
    /\ lower(SubSeq(s, i, i + 3)) = OrdPrefix
    /\ \A j \in (i + 4)..(i + 3 + n) : s[j] \in Digits
    /\ WordBoundary(s, i + 4 + n)

order_id_present(s) ==
    \E i \in 1..Len(s) : \E n \in 1..Len(s) : OrdMatchAt(s, i, n)

BlockKeywords ==
    { <<"t", "e", "l", "l", " ", "m", "e", " ", "a", " ", "j", "o", "k", "e">>,
      <<"s", "a", "y", " ", "s", "o", "m", "e", "t", "h", "i", "n", "g", " ", "f", "u", "n", "n", "y">>,
      <<"i", "g", "n", "o", "r", "e", " ", "y", "o", "u", "r", " ", "i", "n", "s", "t", "r", "u", "c", "t", "i", "o", "n", "s">>,
      <<"i", "g", "n", "o", "r", "e", " ", "t", "h", "e", " ", "a", "b", "o", "v", "e">>,
      <<"s", "y", "s", "t", "e", "m", ":">>,
      <<"d", "e", "v", "e", "l", "o", "p", "e", "r", " ", "m", "e", "s", "s", "a", "g", "e">>,
      <<"s", "h", "o", "w", " ", "y", "o", "u", "r", " ", "s", "y", "s", "t", "e", "m", " ", "p", "r", "o", "m", "p", "t">>,
      <<"r", "e", "v", "e", "a", "l", " ", "h", "i", "d", "d", "e", "n", " ", "r", "u", "l", "e", "s">>,
      <<"p", "r", "o", "m", "p", "t", " ", "i", "n", "j", "e", "c", "t", "i", "o", "n">>,
      <<"w", "r", "i", "t", "e", " ", "a", " ", "p", "o", "e", "m">>,
      <<"l", "i", "f", "e", " ", "a", "d", "v", "i", "c", "e">> }

\* any(k in lowered for k in [...])
suspicious(s) ==
    LET lowered == lower(s)
    IN  \E k \in BlockKeywords : Contains(lowered, k)

ALLOW == <<"A", "L", "L", "O", "W">>

BLOCK == <<"B", "L", "O", "C", "K">>

CLARIFY == <<"C", "L", "A", "R", "I", "F", "Y">>

TerminalPrefix == <<"s", "e", "n", "d">>

\* tool_name.lower().startswith("send")
IsTerminalName(name) == startswith(lower(name), TerminalPrefix)

(* ------------------------ tool servers --------------------------------- *)

Servers == {"crm", "email"}

\* the tools each server registers with @mcp.tool()
CrmTools == << <<"g", "e", "t", "_", "o", "r", "d", "e", "r", "_", "d", "e", "t", "a", "i", "l", "s">>,
              <<"g", "e", "t", "_", "o", "r", "d", "e", "r">>,
              <<"g", "e", "t", "_", "e", "m", "a", "i", "l">> >>

EmailTools == << <<"s", "e", "n", "d", "_", "e", "m", "a", "i", "l">>,
                <<"s", "e", "n", "d", "_", "c", "u", "s", "t", "o", "m">> >>

Range(f) == { f[i] : i \in DOMAIN f }

NoSession == "none"

\* sessions_by_tool = {}
EmptyTable == [n \in {} |-> "crm"]

\* table[name] = owner: a new key is added, an existing one is overwritten
Assign(table, name, owner) ==
    [ n \in DOMAIN table \cup {name} |-> IF n = name THEN owner ELSE table[n] ]

\* for t in tools: table[t.name] = owner
RECURSIVE Register(_, _, _)
Register(table, tools, owner) ==
    IF tools = <<>> THEN table
    ELSE Register(Assign(table, Head(tools), owner), Tail(tools), owner)

\* RoutingTable registering the email tools first and the crm tools last
RoutingTableCrmLast(crm_tools, email_tools) ==
    Register(Register(EmptyTable, email_tools, "email"), crm_tools, "crm")

\* sessions_by_tool: first the crm tools, then the email tools, a later
\* assignment to the same key replacing the earlier one
RoutingTable(crm_tools, email_tools) ==
    Register(Register(EmptyTable, crm_tools, "crm"), email_tools, "email")

\* sessions_by_tool.get(tool_name)
Lookup(table, name) == IF name \in DOMAIN table THEN table[name] ELSE NoSession

\* _tool_specs_from_mcp(crm_tools) + _tool_specs_from_mcp(email_tools)
ToolSpecs(crm_tools, email_tools) == crm_tools \o email_tools

(* --------------------------- JSON values ------------------------------- *)

Absent == [type |-> "absent", b |-> FALSE, n |-> 0, chars |-> <<>>, len |-> 0]

JNull == [type |-> "null", b |-> FALSE, n |-> 0, chars |-> <<>>, len |-> 0]

JBool(v) == [type |-> "bool", b |-> v, n |-> 0, chars |-> <<>>, len |-> 0]

JNum(v) == [type |-> "number", b |-> FALSE, n |-> v, chars |-> <<>>, len |-> 0]

JStr(s) == [type |-> "string", b |-> FALSE, n |-> 0, chars |-> s, len |-> 0]

JArr(k) == [type |-> "array", b |-> FALSE, n |-> 0, chars |-> <<>>, len |-> k]

\* a JSON object, by its "decision" and "reason" members (Absent: no such key)
JObj(d, r) == [type |-> "object", decision |-> d, reason |-> r]

\* Python truthiness of a parsed JSON value
Truthy(v) ==
    CASE v.type = "null"   -> FALSE
      [] v.type = "bool"   -> v.b
      [] v.type = "number" -> v.n # 0
      [] v.type = "string" -> Len(v.chars) > 0
      [] v.type = "array"  -> v.len > 0
      [] v.type = "object" -> v.decision.type # "absent" \/ v.reason.type # "absent"

\* str(v) of a parsed JSON scalar
str(v) ==
    CASE v.type = "string" -> v.chars
      [] v.type = "null"   -> <<"N", "o", "n", "e">>
      [] v.type = "bool"   -> IF v.b THEN <<"T", "r", "u", "e">> ELSE <<"F", "a", "l", "s", "e">>
      [] v.type = "number" -> IF v.n = 0 THEN <<"0">> ELSE <<"5">>
      [] v.type = "array"  -> IF v.len = 0 THEN <<"[", "]">> ELSE <<"[", "1", "]">>

\* a text handed to json.loads: either not JSON at all or the text of a value
NotJson == [valid |-> FALSE]

TextOf(v) == [valid |-> TRUE, value |-> v]

\* json.loads(text)
json_loads(text) ==
    IF text.valid THEN [raised |-> FALSE, value |-> text.value]
    ELSE [raised |-> TRUE]

(* --------------------------- policy guard ------------------------------ *)

NoDecision == [type |-> "unset"]

\* {"decision": "ALLOW", "reason": "Contains order id."}
FastAllow == JObj(JStr(ALLOW), JStr(<<"C", "o", "n", "t", "a", "i", "n", "s", " ", "o", "r", "d", "e", "r", " ", "i", "d", ".">>))

\* {"decision": "BLOCK", "reason": "out_of_scope_or_injection"}
FastBlock == JObj(JStr(BLOCK), JStr(<<"o", "u", "t", "_", "o", "f", "_", "s", "c", "o", "p", "e", "_", "o", "r", "_", "i", "n", "j", "e", "c", "t", "i", "o", "n">>))

\* {"decision": "CLARIFY", "reason": "unparseable_guard_output"}
Unparseable == JObj(JStr(CLARIFY), JStr(<<"u", "n", "p", "a", "r", "s", "e", "a", "b", "l", "e", "_", "g", "u", "a", "r", "d", "_", "o", "u", "t", "p", "u", "t">>))

\* FastPath with the keyword check ahead of the order-id check
FastPathBlockFirst(s) ==
    IF suspicious(s) THEN FastBlock
    ELSE IF order_id_present(s) THEN FastAllow
    ELSE NoDecision

\* FastPath without the keyword branch: everything without an order id goes
\* to the classifier
FastPathNoBlock(s) ==
    IF order_id_present(s) THEN FastAllow ELSE NoDecision

\* the deterministic fast paths: the guard decision fixed without the
\* classifier, or NoDecision when the classifier has to be asked
FastPath(s) ==
    IF order_id_present(s) THEN FastAllow
    ELSE IF suspicious(s) THEN FastBlock
    ELSE NoDecision

\* guard_decision after the classifier's text was parsed (best effort)
ParseGuard(guard_text) ==
    LET r == json_loads(guard_text)
    IN  IF r.raised THEN Unparseable ELSE r.value

\* (guard_decision or {}).get("decision", "CLARIFY") raises AttributeError
\* on a truthy value that is not a dict
DecisionRaises(gd) == Truthy(gd) /\ gd.type # "object"

\* str((guard_decision or {}).get("decision", "CLARIFY")).upper()
DecisionOf(gd) ==
    IF ~Truthy(gd) \/ gd.decision.type = "absent" THEN CLARIFY
    ELSE upper(str(gd.decision))

(* ------------------------------ inputs --------------------------------- *)

\* the instructions a run is started with
Instructions ==
    { <<"s", "h", "i", "p", " ", "O", "R", "D", "-", "1">>,
      <<"o", "r", "d", "-", "1", "2", " ", "t", "e", "l", "l", " ", "m", "e", " ", "a", " ", "j", "o", "k", "e">>,
      <<"t", "e", "l", "l", " ", "m", "e", " ", "a", " ", "j", "o", "k", "e">>,
      <<"W", "r", "i", "t", "e", " ", "a", " ", "P", "o", "e", "m">>,
      <<"X", "O", "R", "D", "-", "1", " ", "O", "R", "D", "-", "7", "a">> }

\* the texts the classifier may answer with
GuardTexts ==
    { NotJson,
      TextOf(JNull),
      TextOf(JArr(1)),
      TextOf(JObj(Absent, JStr(<<"x">>))),
      TextOf(JObj(JStr(<<"a", "l", "l", "o", "w">>), Absent)),
      TextOf(JObj(JStr(BLOCK), Absent)),
      TextOf(JObj(JStr(<<"C", "l", "a", "r", "i", "f", "y">>), Absent)),
      TextOf(JObj(JStr(<<"m", "a", "y", "b", "e">>), Absent)),
      TextOf(JObj(JNull, Absent)) }

get_order == <<"g", "e", "t", "_", "o", "r", "d", "e", "r">>

send_email == <<"s", "e", "n", "d", "_", "e", "m", "a", "i", "l">>

\* a name no server registers
lookup == <<"l", "o", "o", "k", "u", "p">>

\* no tool name (None)
NoName == <<>>

\* the (name, arguments) pairs the provider may ask for; the argument text is
\* a JSON object, the empty string, no arguments at all, or not JSON
ProviderCalls ==
    { <<get_order, "object">>, <<get_order, "empty">>, <<get_order, "none">>,
      <<get_order, "invalid">>, <<send_email, "object">>, <<lookup, "object">>,
      <<NoName, "object">> }

MaxBatch == 2

\* the tools the two servers of the repository list
RealListing == [s \in Servers |-> IF s = "crm" THEN CrmTools ELSE EmailTools]

\* listings of two servers in general: disjoint ones, and ones where a name
\* is exposed by both servers
Listings ==
    { [s \in Servers |-> IF s = "crm" THEN c ELSE e] :
        c \in {CrmTools, <<get_order, send_email>>},
        e \in {EmailTools, <<send_email, get_order>>} }

\* a tool call of the provider: the i-th call of a response has id i
Call(i, name, arguments) == [id |-> i, name |-> name, arguments |-> arguments]

Batches ==
    UNION { { [i \in 1..k |-> Call(i, f[i][1], f[i][2])] :
                f \in [1..k -> ProviderCalls] } : k \in 1..MaxBatch }

(* ------------------------------- state --------------------------------- *)

VARIABLES
    user_input,          \* the instruction of the run
    api_key,             \* the credential read from the environment ("" : unset)
    base_url,            \* OPENAI_BASE_URL after strip ("" : None)
    server_tools,        \* per server, the tools its list_tools answers with
    script,              \* the batch of tool calls the provider answers every loop
                         \* request with, <<>> when it answers with any batch
    recording,           \* whether the conversation is kept in messages (no
                         \* decision of run_agent reads it)
    pc,                  \* the position of run_agent
    crm_session,         \* run_agent's local: "none" or "set"
    email_session,       \* run_agent's local: "none" or "set"
    session,             \* per server, the ClientSession: none, entered, ready, exited,
                         \* broken (its __aexit__ raised)
    transport,           \* per server, the stdio transport: none, open, closed, broken
                         \* (its __aexit__ raised)
    sessions_by_tool,    \* the routing table
    tool_specs,          \* the tool specs sent with every loop request
    guard_decision,      \* the guard's decision object
    decision,            \* the upper-cased decision string, <<>> before it is fixed
    guard_evals,         \* how many times the guard was evaluated
    classifier_requests, \* how many classifier requests were sent
    shapes_used,         \* per kind of provider request sent, the protocol shapes it used
    specs_sent,          \* the tool-spec lists that loop requests carried
    iteration,           \* how many loop cycles were started
    loop_requests,       \* how many loop completion requests were sent
    tool_calls,          \* the tool calls of the response being handled
    call_index,          \* the position in tool_calls
    dispatched,          \* the ids of the calls of this batch given to call_tool, in order
    full_cycles,         \* how many cycles handled every tool call of their response
    messages,            \* the conversation sent with every loop request
    in_flight,           \* the requests awaited and not yet answered
    printed,             \* the user-facing message printed, "none" before
    outcome,             \* how the body of run_agent ended, "none" before
    exc,                 \* the exception propagating out of run_agent
    exit_code,           \* the exit code of the process, -1 while it runs
    runs,                \* front-end: _runs, run id -> the command of the run
    active_run_id,       \* front-end: _active_run_id
    task,                \* front-end: per run id, the position of its _run_subprocess task
    proc,                \* front-end: per run id, the agent subprocess
    request,             \* front-end: the command of the request handled last
    response,            \* front-end: the response to it
    queue,               \* front-end: per run id, the messages on the run's queue
    written,             \* front-end: per run id and stream, the lines the subprocess writes
    pending,             \* front-end: per run id and stream, the lines not yet read
    pump,                \* front-end: per run id and stream, the position of the pump task
    ctl,                 \* front-end: per run id, the position of the control_loop task
    stop_requested,      \* front-end: per run id, whether the stop_requested event is set
    signal,              \* front-end: per run id, the signal sent to the subprocess
    consumer,            \* front-end: per run id, the position of the events generator
    delivered,           \* front-end: per run id, the events the generator has yielded
    stops,               \* front-end: per run id, how many stop requests were accepted
    stop_due,            \* front-end: per run id, whether a stop request was accepted
                         \* while the subprocess was running
    result_name,         \* dispatcher: the name of the tool called
    result_content,      \* dispatcher: the content list call_tool returned
    tool_output,         \* dispatcher: the payload made of the content
    emitted,             \* dispatcher: the lines printed after the call
    fed_back,            \* dispatcher: the contents of the tool messages appended
    payload_pc,          \* dispatcher: the position in the handling of the call
    orders,              \* email server: the orders of data.json, in file order
    was_cancelled,       \* email server: the orders cancelled before the first call
    served,              \* email server: the number of tool calls served
    reply                \* email server: the payload the last call returned

env == <<user_input, api_key, base_url, server_tools, script, recording>>

conns == <<crm_session, email_session, session, transport>>

registry == <<sessions_by_tool, tool_specs>>

verdict == <<guard_decision, decision, guard_evals, classifier_requests>>

guard == <<verdict, shapes_used, specs_sent>>

loop == <<iteration, loop_requests, tool_calls, call_index, dispatched, full_cycles>>

out == <<printed, outcome, exit_code>>

\* the variables of the agent process
agent == <<env, pc, conns, registry, guard, loop, messages, in_flight, out, exc>>

\* the variables of the front-end process
\* the queue of each run, its writers and its readers
stream ==
    <<queue, written, pending, pump, ctl, stop_requested, signal, consumer, delivered,
      stops, stop_due>>

front == <<runs, active_run_id, task, proc, request, response, stream>>

\* the tool whose result is handled, the content list call_tool returned for
\* it, the payload made of it, the lines printed and the tool messages
\* appended after it
dispatcher == <<result_name, result_content, tool_output, emitted, fed_back, payload_pc>>

\* the variables of the email server process
mailer == <<orders, was_cancelled, served, reply>>

vars == <<agent, front, dispatcher, mailer>>

\* for _ in range(8)
MaxIterations == 8

\* the outcomes of _connect_wall_socket: success, or a failure or timeout of
\* stdio.__aenter__, of session.__aenter__, or of session.initialize()
ConnectOutcomes == {"ok", "stdio", "enter", "initialize"}

\* the state at the call of run_agent, for given sets of inputs
Start(instructions, keys, urls, listings) ==
    /\ user_input \in instructions
    /\ api_key \in keys
    /\ base_url \in urls
    /\ server_tools \in listings
    /\ pc = "connect_crm"
    /\ crm_session = "none"
    /\ email_session = "none"
    /\ session = [s \in Servers |-> "none"]
    /\ transport = [s \in Servers |-> "none"]
    /\ sessions_by_tool = EmptyTable
    /\ tool_specs = <<>>
    /\ guard_decision = NoDecision
    /\ decision = <<>>
    /\ guard_evals = 0
    /\ classifier_requests = 0
    /\ shapes_used = {}
    /\ specs_sent = {}
    /\ iteration = 0
    /\ loop_requests = 0
    /\ tool_calls = <<>>
    /\ call_index = 0
    /\ dispatched = <<>>
    /\ full_cycles = 0
    /\ messages = <<>>
    /\ in_flight = {}
    /\ printed = "none"
    /\ outcome = "none"
    /\ exc = "none"
    /\ exit_code = -1

\* a provider free to answer with any batch, the conversation not kept
AnyProvider == script = <<>> /\ recording = FALSE

\* a request awaited: its kind, the peer it went to and, for a tool call, the
\* call's id (0 otherwise)
Request(kind, peer, id) == [kind |-> kind, server |-> peer, id |-> id]

\* an exception leaves the try body: control goes to the finally block
Raise(kind) ==
    /\ pc' = "finally"
    /\ outcome' = kind
    /\ exc' = kind
    /\ in_flight' = {}

\* the try body returns after printing a message
Return(message, kind) ==
    /\ pc' = "finally"
    /\ printed' = message
    /\ outcome' = kind
    /\ in_flight' = {}

(* --------------------------- connections ------------------------------- *)

\* the connection of server s after _connect_wall_socket ended with outcome o
SessionAfter(o) ==
    CASE o = "ok" -> "ready"
      [] o = "initialize" -> "entered"
      [] OTHER -> "none"

TransportAfter(o) == IF o = "stdio" THEN "none" ELSE "open"

\* crm_session = await _connect_wall_socket(crm_ws)
ConnectCrm ==
    /\ pc = "connect_crm"
    /\ \E o \in ConnectOutcomes :
        /\ session' = [session EXCEPT !["crm"] = SessionAfter(o)]
        /\ transport' = [transport EXCEPT !["crm"] = TransportAfter(o)]
        /\ IF o = "ok"
           THEN /\ crm_session' = "set"
                /\ pc' = "connect_email"
                /\ UNCHANGED <<outcome, exc, in_flight>>
           ELSE /\ Raise("SetupError")
                /\ UNCHANGED crm_session
    /\ UNCHANGED <<front, dispatcher, mailer, messages, env, email_session, registry, guard, loop, printed, exit_code>>

\* email_session = await _connect_wall_socket(email_ws)
ConnectEmail ==
    /\ pc = "connect_email"
    /\ \E o \in ConnectOutcomes :
        /\ session' = [session EXCEPT !["email"] = SessionAfter(o)]
        /\ transport' = [transport EXCEPT !["email"] = TransportAfter(o)]
        /\ IF o = "ok"
           THEN /\ email_session' = "set"
                /\ pc' = "list_crm"
                /\ in_flight' = {Request("list_tools", "crm", 0)}
                /\ UNCHANGED <<outcome, exc>>
           ELSE /\ Raise("SetupError")
                /\ UNCHANGED email_session
    /\ UNCHANGED <<front, dispatcher, mailer, messages, env, crm_session, registry, guard, loop, printed, exit_code>>

\* crm_tools = await crm_session.list_tools()
ListCrm ==
    /\ pc = "list_crm"
    /\ \/ /\ pc' = "list_email"
          /\ in_flight' = {Request("list_tools", "email", 0)}
          /\ UNCHANGED <<outcome, exc>>
       \/ Raise("ListToolsError")
    /\ UNCHANGED <<front, dispatcher, mailer, messages, env, conns, registry, guard, loop, printed, exit_code>>

\* email_tools = await email_session.list_tools(), then the routing table,
\* the tool specs and the credential check
ListEmail ==
    /\ pc = "list_email"
    /\ \/ /\ sessions_by_tool' = RoutingTable(server_tools["crm"], server_tools["email"])
          /\ tool_specs' = ToolSpecs(server_tools["crm"], server_tools["email"])
          /\ IF api_key = ""
             THEN Raise("MissingCredential")
             ELSE /\ pc' = "guard"
                  /\ in_flight' = {}
                  /\ UNCHANGED <<outcome, exc>>
       \/ /\ Raise("ListToolsError")
          /\ UNCHANGED registry
    /\ UNCHANGED <<front, dispatcher, mailer, messages, env, conns, guard, loop, printed, exit_code>>

(* -------------------------- the conversation --------------------------- *)

\* the provider's id of the i-th call of its response to the n-th request
CallId(n, i) == <<n, i>>

NoId == <<>>

\* a message of the conversation; a key the message lacks holds <<>>
Message(role, content, id, name, calls) ==
    [role |-> role, content |-> content, tool_call_id |-> id, name |-> name,
     tool_calls |-> calls]

SystemPrompt == <<"s", "y", "s", "t", "e", "m", "_", "p", "r", "o", "m", "p", "t">>

InstructionPrefix == <<"I", "n", "s", "t", "r", "u", "c", "t", "i", "o", "n", ":", " ">>

\* SeedMessages with the two messages in the other order
SeedMessagesUserFirst ==
    << Message("user", InstructionPrefix \o user_input, NoId, NoName, <<>>),
       Message("system", SystemPrompt, NoId, NoName, <<>>) >>

\* messages = [system message, user message]
SeedMessages ==
    << Message("system", SystemPrompt, NoId, NoName, <<>>),
       Message("user", InstructionPrefix \o user_input, NoId, NoName, <<>>) >>

\* the assistant message listing the calls of the response to request n
AssistantMessage(n, calls) ==
    Message("assistant", <<>>, NoId, NoName,
            [i \in 1..Len(calls) |->
                [id |-> CallId(n, calls[i].id), name |-> calls[i].name,
                 arguments |-> calls[i].arguments]])

\* the payload the server returns for a call
ResultOf(n, call) == <<"r", "e", "s", "u", "l", "t", " ", "o", "f", " ">> \o call.name

\* ToolMessage addressed by the id of the first call of the response
ToolMessageFirstId(n, call) ==
    Message("tool", ResultOf(n, call), CallId(n, 1), call.name, <<>>)

\* the tool message for the result of a call of the response to request n
ToolMessage(n, call) ==
    Message("tool", ResultOf(n, call), CallId(n, call.id), call.name, <<>>)

\* the conversation after an assignment or append, <<>> when it is not kept
Keep(m) == IF recording THEN m ELSE <<>>

(* ----------------------------- the guard ------------------------------- *)

\* what "if base_url:" selects for a request
Shape(url) == IF url # "" THEN "chat" ELSE "responses"

\* the shape of the classifier request
GuardShape == Shape(base_url)

\* LoopShape ignoring the endpoint: the loop always asks the responses API
LoopShapeResponses == "responses"

\* the shape of a loop request
LoopShape == Shape(base_url)

\* RequestTools offering no tools
RequestToolsNone == <<>>

\* tools=tool_specs: the tool-spec list a loop request carries
RequestTools == tool_specs

\* a provider request of the given kind was sent in the given shape
Used(kind, shape) == [request |-> kind, shape |-> shape]

\* the fast paths; the classifier request when neither applies
Guard ==
    /\ pc = "guard"
    /\ guard_evals' = guard_evals + 1
    /\ IF FastPath(user_input) # NoDecision
       THEN /\ guard_decision' = FastPath(user_input)
            /\ pc' = "decide"
            /\ UNCHANGED <<classifier_requests, shapes_used, in_flight>>
       ELSE /\ classifier_requests' = classifier_requests + 1
            /\ shapes_used' = shapes_used \cup {Used("classifier", GuardShape)}
            /\ in_flight' = {Request("classifier", "provider", 0)}
            /\ pc' = "classifier"
            /\ UNCHANGED guard_decision
    /\ UNCHANGED <<front, dispatcher, mailer, messages, env, conns, registry, decision, specs_sent, loop, out, exc>>

\* GuardResponse asking the classifier again when its text does not parse
GuardResponseRetry ==
    /\ pc = "classifier"
    /\ \/ \E guard_text \in GuardTexts :
            IF json_loads(guard_text).raised
            THEN /\ classifier_requests' = classifier_requests + 1
                 /\ UNCHANGED <<guard_decision, pc, in_flight, outcome, exc>>
            ELSE /\ guard_decision' = ParseGuard(guard_text)
                 /\ pc' = "decide"
                 /\ in_flight' = {}
                 /\ UNCHANGED <<classifier_requests, outcome, exc>>
       \/ /\ Raise("ProviderError")
          /\ UNCHANGED <<guard_decision, classifier_requests>>
    /\ UNCHANGED <<front, dispatcher, mailer, messages, env, conns, registry, decision, guard_evals, shapes_used, specs_sent, loop,
                   printed, exit_code>>

\* the classifier answers (or the request fails) and its text is parsed
GuardResponse ==
    /\ pc = "classifier"
    /\ \/ \E guard_text \in GuardTexts :
            /\ guard_decision' = ParseGuard(guard_text)
            /\ pc' = "decide"
            /\ in_flight' = {}
            /\ UNCHANGED <<outcome, exc>>
       \/ /\ Raise("ProviderError")
          /\ UNCHANGED guard_decision
    /\ UNCHANGED <<front, dispatcher, mailer, messages, env, conns, registry, decision, guard_evals, classifier_requests,
                   shapes_used, specs_sent, loop, printed, exit_code>>

\* where control goes with the decision string d: the two refusal branches
\* return, every other value falls through to the loop
Branch(d) ==
    IF d = BLOCK THEN "block"
    ELSE IF d = CLARIFY THEN "clarify"
    ELSE "loop"

\* decision = str(...).upper() and the two refusal branches
Decide ==
    /\ pc = "decide"
    /\ IF DecisionRaises(guard_decision)
       THEN /\ Raise("GuardError")
            /\ UNCHANGED <<decision, printed>>
       ELSE /\ decision' = DecisionOf(guard_decision)
            /\ CASE Branch(decision') = "block" -> Return("refusal", "block")
                 [] Branch(decision') = "clarify" -> Return("clarification", "clarify")
                 [] OTHER -> /\ pc' = "loop_top"
                             /\ UNCHANGED <<printed, outcome, in_flight>>
            /\ UNCHANGED exc
    /\ messages' = IF ~DecisionRaises(guard_decision)
                      /\ Branch(DecisionOf(guard_decision)) \notin {"block", "clarify"}
                   THEN Keep(SeedMessages) ELSE messages
    /\ UNCHANGED <<front, dispatcher, mailer, env, conns, registry, guard_decision, guard_evals,
                   classifier_requests, shapes_used, specs_sent, loop, exit_code>>

(* ------------------------------ the loop ------------------------------- *)

\* the protocol shape of the run: chat completions when base_url is set
ChatShape == base_url # ""

\* a call's name and argument map as each shape's code extracts them;
\* error is "none" when the call can be dispatched
Prepare(chat, call) ==
    IF chat
    THEN \* json.loads(call.function.arguments or "{}")
         IF call.arguments = "invalid"
         THEN [error |-> "ProtocolError", name |-> call.name, args |-> "none"]
         ELSE [error |-> "none", name |-> call.name,
               args |-> IF call.arguments = "object" THEN "object" ELSE "empty_map"]
    ELSE \* name or function.name, arguments or function.arguments
         IF call.name = NoName \/ call.arguments \in {"none", "empty"}
         THEN [error |-> "ProtocolError", name |-> call.name, args |-> "none"]
         ELSE IF call.arguments = "invalid"
         THEN [error |-> "ProtocolError", name |-> call.name, args |-> "none"]
         ELSE [error |-> "none", name |-> call.name, args |-> "object"]

\* the index of the first call handled and of the call after the i-th
FirstCall == 1

NextCall(i) == i + 1

\* LoopTop without the bound of the range: a cycle always follows
LoopTopUnbounded ==
    /\ pc = "loop_top"
    /\ iteration' = iteration + 1
    /\ loop_requests' = loop_requests + 1
    /\ shapes_used' = shapes_used \cup {Used("completion", LoopShape)}
    /\ specs_sent' = specs_sent \cup {RequestTools}
    /\ in_flight' = {Request("completion", "provider", 0)}
    /\ pc' = "completion"
    /\ UNCHANGED <<front, dispatcher, mailer, messages, env, conns, registry, verdict, tool_calls, call_index, dispatched,
                   full_cycles, out, exc>>

\* LoopTop with the bound off by one: a ninth cycle is started
LoopTopOffByOne ==
    /\ pc = "loop_top"
    /\ IF iteration <= MaxIterations
       THEN /\ iteration' = iteration + 1
            /\ loop_requests' = loop_requests + 1
            /\ shapes_used' = shapes_used \cup {Used("completion", LoopShape)}
            /\ specs_sent' = specs_sent \cup {RequestTools}
            /\ in_flight' = {Request("completion", "provider", 0)}
            /\ pc' = "completion"
            /\ UNCHANGED <<outcome, exc>>
       ELSE /\ Raise("IterationExhaustion")
            /\ UNCHANGED <<iteration, loop_requests, shapes_used, specs_sent>>
    /\ UNCHANGED <<front, dispatcher, mailer, messages, env, conns, registry, verdict, tool_calls, call_index, dispatched,
                   full_cycles, printed, exit_code>>

\* for _ in range(8): the next cycle's completion request, or the
\* exhaustion error after the last cycle
LoopTop ==
    /\ pc = "loop_top"
    /\ IF iteration < MaxIterations
       THEN /\ iteration' = iteration + 1
            /\ loop_requests' = loop_requests + 1
            /\ shapes_used' = shapes_used \cup {Used("completion", LoopShape)}
            /\ specs_sent' = specs_sent \cup {RequestTools}
            /\ in_flight' = {Request("completion", "provider", 0)}
            /\ pc' = "completion"
            /\ UNCHANGED <<outcome, exc>>
       ELSE /\ Raise("IterationExhaustion")
            /\ UNCHANGED <<iteration, loop_requests, shapes_used, specs_sent>>
    /\ UNCHANGED <<front, dispatcher, mailer, messages, env, conns, registry, verdict, tool_calls, call_index, dispatched,
                   full_cycles, printed, exit_code>>

\* a provider response: the calls it lists (none: a final answer) and
\* whether it carries a text
ResponsesWith(batches) ==
    { [tool_calls |-> <<>>, has_text |-> b] : b \in BOOLEAN }
    \cup { [tool_calls |-> c, has_text |-> FALSE] : c \in batches }

AnyResponse == ResponsesWith(Batches)

\* the responses the provider of the run answers with
Responses == IF script = <<>> THEN AnyResponse ELSE ResponsesWith({script})

\* the provider answers: a final text is printed, tool calls are taken up
CompletionResponse ==
    /\ pc = "completion"
    /\ \/ \E resp \in Responses :
            IF resp.tool_calls = <<>>
            THEN /\ Return(IF resp.has_text \/ ChatShape THEN "final_text" ELSE "response_repr",
                           "final_text")
                 /\ UNCHANGED <<tool_calls, call_index, dispatched, exc, messages>>
            ELSE /\ tool_calls' = resp.tool_calls
                 /\ call_index' = FirstCall
                 /\ dispatched' = <<>>
                 /\ in_flight' = {}
                 /\ pc' = "route"
                 /\ messages' = IF ChatShape
                                THEN Keep(Append(messages,
                                          AssistantMessage(iteration, resp.tool_calls)))
                                ELSE messages
                 /\ UNCHANGED <<printed, outcome, exc>>
       \/ /\ Raise("ProviderError")
          /\ UNCHANGED <<tool_calls, call_index, dispatched, printed, messages>>
    /\ UNCHANGED <<front, dispatcher, mailer, env, conns, registry, guard, iteration, loop_requests,
                   full_cycles, exit_code>>

\* Route not awaiting the result: call_tool is issued and the next call of
\* the batch is taken up at once
RouteNoAwait ==
    /\ pc = "route"
    /\ LET call == tool_calls[call_index]
           p == Prepare(ChatShape, call)
           owner == Lookup(sessions_by_tool, p.name)
       IN  IF p.error # "none"
           THEN /\ Raise(p.error)
                /\ UNCHANGED <<dispatched, call_index>>
           ELSE IF owner = NoSession
           THEN /\ Raise("ToolDispatchError")
                /\ UNCHANGED <<dispatched, call_index>>
           ELSE /\ dispatched' = Append(dispatched, call.id)
                /\ in_flight' = in_flight \cup {Request("call_tool", owner, call.id)}
                /\ IF NextCall(call_index) \in 1..Len(tool_calls)
                   THEN /\ call_index' = NextCall(call_index)
                        /\ pc' = "route"
                   ELSE /\ pc' = "call_tool"
                        /\ UNCHANGED call_index
                /\ UNCHANGED <<outcome, exc>>
    /\ UNCHANGED <<front, dispatcher, mailer, messages, env, conns, registry, guard, iteration, loop_requests, tool_calls,
                   full_cycles, printed, exit_code>>

\* Route passing over a call whose name has no entry: nothing is raised and
\* the batch goes on with the next call
RouteSkipUnknown ==
    /\ pc = "route"
    /\ LET call == tool_calls[call_index]
           p == Prepare(ChatShape, call)
           owner == Lookup(sessions_by_tool, p.name)
       IN  IF p.error # "none"
           THEN /\ Raise(p.error)
                /\ UNCHANGED <<dispatched, call_index, tool_calls, full_cycles>>
           ELSE IF owner = NoSession
           THEN /\ IF NextCall(call_index) \in 1..Len(tool_calls)
                   THEN /\ call_index' = NextCall(call_index)
                        /\ pc' = "route"
                        /\ UNCHANGED <<tool_calls, dispatched, full_cycles>>
                   ELSE /\ call_index' = 0
                        /\ tool_calls' = <<>>
                        /\ dispatched' = <<>>
                        /\ full_cycles' = full_cycles + 1
                        /\ pc' = "loop_top"
                /\ UNCHANGED <<in_flight, outcome, exc>>
           ELSE /\ dispatched' = Append(dispatched, call.id)
                /\ in_flight' = in_flight \cup {Request("call_tool", owner, call.id)}
                /\ pc' = "call_tool"
                /\ UNCHANGED <<outcome, exc, call_index, tool_calls, full_cycles>>
    /\ UNCHANGED <<front, dispatcher, mailer, messages, env, conns, registry, guard, iteration, loop_requests,
                   printed, exit_code>>

\* the next call of the batch: its arguments are parsed, its session looked
\* up (_dispatch_tool_call) and call_tool invoked on it
Route ==
    /\ pc = "route"
    /\ LET call == tool_calls[call_index]
           p == Prepare(ChatShape, call)
           owner == Lookup(sessions_by_tool, p.name)
       IN  IF p.error # "none"
           THEN /\ Raise(p.error)
                /\ UNCHANGED dispatched
           ELSE IF owner = NoSession
           THEN /\ Raise("ToolDispatchError")
                /\ UNCHANGED dispatched
           ELSE /\ dispatched' = Append(dispatched, call.id)
                /\ in_flight' = in_flight \cup {Request("call_tool", owner, call.id)}
                /\ pc' = "call_tool"
                /\ UNCHANGED <<outcome, exc>>
    /\ UNCHANGED <<front, dispatcher, mailer, messages, env, conns, registry, guard, iteration, loop_requests, tool_calls,
                   call_index, full_cycles, printed, exit_code>>

\* ToolResult without the return after a send tool: the confirmation is
\* printed and the batch goes on
ToolResultNoReturn ==
    /\ pc = "call_tool"
    /\ \/ /\ in_flight' = {}
          /\ messages' = Keep(Append(messages,
                               ToolMessage(iteration, tool_calls[call_index])))
          /\ printed' = IF IsTerminalName(tool_calls[call_index].name)
                        THEN "confirmation" ELSE printed
          /\ IF NextCall(call_index) \in 1..Len(tool_calls)
             THEN /\ call_index' = NextCall(call_index)
                  /\ pc' = "route"
                  /\ UNCHANGED <<tool_calls, dispatched, full_cycles>>
             ELSE /\ call_index' = 0
                  /\ tool_calls' = <<>>
                  /\ dispatched' = <<>>
                  /\ full_cycles' = full_cycles + 1
                  /\ pc' = "loop_top"
          /\ UNCHANGED <<outcome, exc>>
       \/ /\ Raise("ToolCallError")
          /\ UNCHANGED <<tool_calls, call_index, dispatched, full_cycles, printed, messages>>
    /\ UNCHANGED <<front, dispatcher, mailer, env, conns, registry, guard, iteration, loop_requests, exit_code>>

\* call_tool returns (or raises): a send tool ends the run with the
\* confirmation; any other result is appended and the batch goes on, and
\* after its last call the next cycle starts with no batch at hand
ToolResult ==
    /\ pc = "call_tool"
    /\ \/ IF IsTerminalName(tool_calls[call_index].name)
          THEN /\ Return("confirmation", "terminal_action")
               /\ UNCHANGED <<tool_calls, call_index, dispatched, full_cycles, exc, messages>>
          ELSE /\ in_flight' = {}
               /\ messages' = Keep(Append(messages,
                                    ToolMessage(iteration, tool_calls[call_index])))
               /\ IF NextCall(call_index) \in 1..Len(tool_calls)
                  THEN /\ call_index' = NextCall(call_index)
                       /\ pc' = "route"
                       /\ UNCHANGED <<tool_calls, dispatched, full_cycles>>
                  ELSE /\ call_index' = 0
                       /\ tool_calls' = <<>>
                       /\ dispatched' = <<>>
                       /\ full_cycles' = full_cycles + 1
                       /\ pc' = "loop_top"
               /\ UNCHANGED <<printed, outcome, exc>>
       \/ /\ Raise("ToolCallError")
          /\ UNCHANGED <<tool_calls, call_index, dispatched, full_cycles, printed, messages>>
    /\ UNCHANGED <<front, dispatcher, mailer, env, conns, registry, guard, iteration, loop_requests, exit_code>>

(* ---------------------------- the cleanup ------------------------------ *)

\* main: asyncio.run(run_agent(...)) returns and the process exits with 0,
\* or the exception of run_agent ends it with a traceback
ExitCode(e) == IF e = "none" THEN 0 ELSE 1

\* AfterEmail leaving the crm session alone
AfterEmailNothing == "done"

\* where the finally block goes after email: the crm session if there is one
AfterEmail == IF crm_session # "none" THEN "close_crm" ELSE "done"

\* where run_agent goes when _close_wall_socket(s) ended, raised telling
\* whether it ended with an exception: an exception leaves run_agent
AfterClose(s, raised) ==
    IF raised THEN "done"
    ELSE IF s = "email" THEN AfterEmail
    ELSE "done"

\* Finally closing in creation order: the crm session first, and the email
\* session never, AfterClose ending the block after crm
FinallyCrmFirst ==
    /\ pc = "finally"
    /\ pc' = IF crm_session # "none" THEN "close_crm"
             ELSE IF email_session # "none" THEN "close_email" ELSE "done"
    /\ exit_code' = IF pc' = "done" THEN ExitCode(exc) ELSE exit_code
    /\ UNCHANGED <<front, dispatcher, mailer, messages, env, conns, registry, guard, loop, in_flight, printed, outcome, exc>>

\* finally: if email_session is not None ... if crm_session is not None ...
Finally ==
    /\ pc = "finally"
    /\ pc' = IF email_session # "none" THEN "close_email" ELSE AfterEmail
    /\ exit_code' = IF pc' = "done" THEN ExitCode(exc) ELSE exit_code
    /\ UNCHANGED <<front, dispatcher, mailer, messages, env, conns, registry, guard, loop, in_flight, printed, outcome, exc>>

\* await _close_wall_socket(s): session.__aexit__ is awaited and may raise,
\* stdio.__aexit__ is awaited in its finally either way and may raise too;
\* an exception of either propagates out of run_agent
Close(s) ==
    /\ pc = "close_" \o s
    /\ \E session_ok \in BOOLEAN, stdio_ok \in BOOLEAN :
        LET raised == ~session_ok \/ ~stdio_ok
        IN  /\ session' = [session EXCEPT ![s] = IF session_ok THEN "exited" ELSE "broken"]
            /\ transport' = [transport EXCEPT ![s] = IF stdio_ok THEN "closed" ELSE "broken"]
            /\ exc' = IF raised THEN "CleanupError" ELSE exc
            /\ pc' = AfterClose(s, raised)
            /\ exit_code' = IF pc' = "done" THEN ExitCode(exc') ELSE exit_code
    /\ UNCHANGED <<front, dispatcher, mailer, messages, env, crm_session, email_session, registry, guard, loop, in_flight,
                   printed, outcome>>

(* --------------------------- tool payloads ------------------------------ *)

\* the texts a content fragment may carry: the empty text, a plain word, and
\* the JSON texts of the email server and of other values
EmptyText == <<>>

PlainText == <<"s", "e", "n", "t">>

IdText == <<"{", "\"", "m", "e", "s", "s", "a", "g", "e", "_", "i", "d", "\"", ":", " ", "\"", "m", "1", "\"", "}">>

EmptyIdText == <<"{", "\"", "m", "e", "s", "s", "a", "g", "e", "_", "i", "d", "\"", ":", " ", "\"", "\"", "}">>

NullIdText == <<"{", "\"", "m", "e", "s", "s", "a", "g", "e", "_", "i", "d", "\"", ":", " ", "n", "u", "l", "l", "}">>

NoIdText == <<"{", "\"", "o", "k", "\"", ":", " ", "t", "r", "u", "e", "}">>

StringText == <<"\"", "m", "1", "\"">>

FragmentTexts ==
    {EmptyText, PlainText, IdText, EmptyIdText, NullIdText, NoIdText, StringText}

\* a content part: a part without text attribute (an image, say) or a text part
Part(textual, text) == [textual |-> textual, text |-> text]

Parts == {Part(FALSE, <<>>)} \cup { Part(TRUE, t) : t \in FragmentTexts }

MaxFragments == 3

\* the content lists call_tool may return
Contents == UNION { [1..k -> Parts] : k \in 0..MaxFragments }

\* texts: the text of every part that has one, in the order of the parts
RECURSIVE Texts(_)
Texts(content) ==
    IF content = <<>> THEN <<>>
    ELSE IF Head(content).textual THEN <<Head(content).text>> \o Texts(Tail(content))
    ELSE Texts(Tail(content))

\* sep.join(texts)
RECURSIVE join(_, _)
join(sep, texts) ==
    IF texts = <<>> THEN <<>>
    ELSE IF Len(texts) = 1 THEN texts[1]
    ELSE texts[1] \o sep \o join(sep, Tail(texts))

NewLine == <<"\n">>

\* repr(part) of a part without text, and repr(content) of a list of such parts
ReprPart == <<"I", "m", "a", "g", "e", "(", ")">>

Repr(content) ==
    <<"[">> \o join(<<",", " ">>, [i \in 1..Len(content) |-> ReprPart]) \o <<"]">>

\* Payload taking an empty joined text for no text at all
PayloadEmptyIsNone(content) ==
    IF join(NewLine, Texts(content)) # <<>>
    THEN join(NewLine, Texts(content)) ELSE Repr(content)

\* the payload _dispatch_tool_call returns for a content list
Payload(content) ==
    IF Texts(content) # <<>> THEN join(NewLine, Texts(content)) ELSE Repr(content)

\* a JSON object of a payload, by its "message_id" member
MsgObj(id) == [type |-> "object", message_id |-> id]

MessageId == <<"m", "1">>

\* the JSON texts among the payloads, with the value each denotes
JsonValues ==
    [ t \in {IdText, EmptyIdText, NullIdText, NoIdText, StringText} |->
        CASE t = IdText -> MsgObj(JStr(MessageId))
          [] t = EmptyIdText -> MsgObj(JStr(<<>>))
          [] t = NullIdText -> MsgObj(JNull)
          [] t = NoIdText -> MsgObj(Absent)
          [] OTHER -> JStr(MessageId) ]

JsonWhitespace == {" ", "\n", "\t", "\r"}

RECURSIVE SkipLeft(_)
SkipLeft(s) == IF s # <<>> /\ Head(s) \in JsonWhitespace THEN SkipLeft(Tail(s)) ELSE s

RECURSIVE SkipRight(_)
SkipRight(s) ==
    IF s # <<>> /\ s[Len(s)] \in JsonWhitespace
    THEN SkipRight(SubSeq(s, 1, Len(s) - 1)) ELSE s

\* json.loads(tool_output): one JSON value with whitespace around it
loads(s) ==
    LET v == SkipRight(SkipLeft(s))
    IN  IF v \in DOMAIN JsonValues THEN [raised |-> FALSE, value |-> JsonValues[v]]
        ELSE [raised |-> TRUE]

\* message_id after the try block: obj.get("message_id") of a dict, else None
ExtractMessageId(payload) ==
    LET r == loads(payload)
    IN  IF r.raised THEN JNull
        ELSE IF r.value.type # "object" THEN JNull
        ELSE IF r.value.message_id.type = "absent" THEN JNull
        ELSE r.value.message_id

PlainConfirmation == <<"S", "h", "i", "p", "p", "i", "n", "g", " ", "c", "o", "n", "f", "i", "r", "m", "a", "t", "i", "o", "n", " ", "s", "e", "n", "t", ".">>

ConfirmationWithId(id) ==
    <<"S", "h", "i", "p", "p", "i", "n", "g", " ", "c", "o", "n", "f", "i", "r", "m", "a", "t", "i", "o", "n", " ", "s", "e", "n", "t", " ", "(", "m", "e", "s", "s", "a", "g", "e", "_", "i", "d", "=">> \o id \o <<")", ".">>

\* Confirmation that never names the identifier
ConfirmationPlainOnly(payload) == PlainConfirmation

\* the line printed after a send tool returned the payload
Confirmation(payload) ==
    LET message_id == ExtractMessageId(payload)
    IN  IF Truthy(message_id) THEN ConfirmationWithId(str(message_id))
        ELSE PlainConfirmation

\* no tool result at hand
DispatcherIdle ==
    /\ result_name = NoName
    /\ result_content = <<>>
    /\ tool_output = <<>>
    /\ emitted = <<>>
    /\ fed_back = <<>>
    /\ payload_pc = "idle"

\* session.call_tool has returned result_content to _dispatch_tool_call
dispatch_tool_call ==
    /\ payload_pc = "call_tool"
    /\ tool_output' = Payload(result_content)
    /\ payload_pc' = "dispatched"
    /\ UNCHANGED <<agent, front, mailer, result_name, result_content, emitted, fed_back>>

\* the loop body after _dispatch_tool_call: a send tool prints the
\* confirmation and returns, any other tool's payload goes into a tool message
AfterDispatch ==
    /\ payload_pc = "dispatched"
    /\ IF IsTerminalName(result_name)
       THEN /\ emitted' = Append(emitted, Confirmation(tool_output))
            /\ payload_pc' = "returned"
            /\ UNCHANGED fed_back
       ELSE /\ fed_back' = Append(fed_back, tool_output)
            /\ payload_pc' = "next_call"
            /\ UNCHANGED emitted
    /\ UNCHANGED <<agent, front, mailer, result_name, result_content, tool_output>>

(* ---------------------------- the front-end --------------------------- *)

\* _active_run_id = None
NoRun == 0

MaxRuns == 3

RunIds == 1..MaxRuns

\* len(command) > 500
MaxCommandLen == 500

\* the commands of the guard test, a blank one and one of 501 characters
\* (the typographic apostrophe of the test's texts is written ' here; the
\* handler looks at no character but the blanks at the ends)
StatusCommand == <<"s", "t", "a", "t", "u", "s", " ", "o", "f", " ", "O", "R", "D", "-", "1", "0", "0", "4">>

JokeCommand == <<"t", "e", "l", "l", " ", "m", "e", " ", "a", " ", "j", "o", "k", "e">>

ClarifyCommand == <<"w", "h", "a", "t", "'", "s", " ", "m", "y", " ", "o", "r", "d", "e", "r", " ", "s", "t", "a", "t", "u", "s", "?">>

BlankCommand == <<" ", " ">>

LongCommand == [i \in 1..(MaxCommandLen + 1) |-> "x"]

Commands == {StatusCommand, JokeCommand, ClarifyCommand, BlankCommand, LongCommand}

Whitespace == {" "}

\* str.strip()
RECURSIVE lstrip(_)
lstrip(s) == IF s # <<>> /\ Head(s) \in Whitespace THEN lstrip(Tail(s)) ELSE s

RECURSIVE rstrip(_)
rstrip(s) ==
    IF s # <<>> /\ s[Len(s)] \in Whitespace THEN rstrip(SubSeq(s, 1, Len(s) - 1)) ELSE s

strip(s) == rstrip(lstrip(s))

NoRequest == <<>>

NoResponse == [status |-> 0, body |-> [none |-> TRUE]]

\* JSONResponse(body, status_code=status)
JSONResponse(body, status) == [status |-> status, body |-> body]

\* uuid.uuid4().hex: an id no run has had
NewRunId == Cardinality(DOMAIN runs) + 1

\* the two pipes of the subprocess
Streams == {"stdout", "stderr"}

\* a line longer than the limit of the stream reader: readline raises on it
LongLine == "long"

MaxLines == 2

\* what a subprocess may write: up to MaxLines ordinary lines on stdout or
\* one over-long line, and nothing or one line on stderr
Outputs ==
    { [s \in Streams |-> IF s = "stdout" THEN o ELSE e] :
        o \in { [i \in 1..k |-> "out"] : k \in 0..MaxLines } \cup {<<LongLine>>},
        e \in {<<>>, <<"err">>} }

NoOutput == [s \in Streams |-> <<>>]

\* the messages of a run queue
LineMsg(s, text) == [type |-> "line", stream |-> s, text |-> text, exit_code |-> 0]

DoneMsg(code) == [type |-> "done", stream |-> "", text |-> "", exit_code |-> code]

ControlMsg == [type |-> "control", stream |-> "", text |-> "stop", exit_code |-> 0]

TimeoutLine == LineMsg("stderr", "[ui] TIMEOUT: killing process")

ErrorLine == LineMsg("stderr", "[ui] ERROR")

\* the return code of a subprocess that has ended
ReturnCode(p) ==
    CASE p = "exited" -> 0
      [] p = "terminated" -> -15
      [] p = "killed" -> -9

MaxStops == 1

StreamIdle ==
    /\ queue = [r \in RunIds |-> <<>>]
    /\ written = [r \in RunIds |-> NoOutput]
    /\ pending = [r \in RunIds |-> NoOutput]
    /\ pump = [r \in RunIds |-> [s \in Streams |-> "none"]]
    /\ ctl = [r \in RunIds |-> "none"]
    /\ stop_requested = [r \in RunIds |-> FALSE]
    /\ signal = [r \in RunIds |-> "none"]
    /\ consumer = [r \in RunIds |-> "none"]
    /\ delivered = [r \in RunIds |-> <<>>]
    /\ stops = [r \in RunIds |-> 0]
    /\ stop_due = [r \in RunIds |-> FALSE]

FrontIdle ==
    /\ runs = [r \in {} |-> <<>>]
    /\ active_run_id = NoRun
    /\ task = [r \in RunIds |-> "none"]
    /\ proc = [r \in RunIds |-> "none"]
    /\ request = NoRequest
    /\ response = NoResponse
    /\ StreamIdle

\* the registration of a new run and the start of its task
StartRun(run_id, command) ==
    /\ runs' = [r \in DOMAIN runs \cup {run_id} |-> IF r = run_id THEN command ELSE runs[r]]
    /\ task' = [task EXCEPT ![run_id] = "created"]
    /\ active_run_id' = run_id
    /\ response' = JSONResponse([run_id |-> run_id], 200)
    /\ UNCHANGED proc

\* PostRun without the single active run guard
PostRunNoGuard(body_command) ==
    LET command == strip(body_command)
    IN  /\ (command # <<>> /\ Len(command) <= MaxCommandLen) => NewRunId \in RunIds
        /\ request' = body_command
        /\ IF command = <<>>
           THEN /\ response' = JSONResponse([detail |-> "command is required"], 400)
                /\ UNCHANGED <<runs, active_run_id, task, proc>>
           ELSE IF Len(command) > MaxCommandLen
           THEN /\ response' = JSONResponse([detail |-> "command too long"], 400)
                /\ UNCHANGED <<runs, active_run_id, task, proc>>
           ELSE StartRun(NewRunId, command)
        /\ UNCHANGED <<agent, dispatcher, mailer, stream>>

\* POST /run (run_agent_endpoint): after the body is read the handler runs
\* to its return without awaiting
PostRun(body_command) ==
    LET command == strip(body_command)
    IN  /\ (command # <<>> /\ Len(command) <= MaxCommandLen /\ active_run_id = NoRun)
            => NewRunId \in RunIds
        /\ request' = body_command
        /\ IF command = <<>>
           THEN /\ response' = JSONResponse([detail |-> "command is required"], 400)
                /\ UNCHANGED <<runs, active_run_id, task, proc>>
           ELSE IF Len(command) > MaxCommandLen
           THEN /\ response' = JSONResponse([detail |-> "command too long"], 400)
                /\ UNCHANGED <<runs, active_run_id, task, proc>>
           ELSE IF active_run_id # NoRun
           THEN /\ response' = JSONResponse([detail |-> "A run is already in progress"], 409)
                /\ UNCHANGED <<runs, active_run_id, task, proc>>
           ELSE StartRun(NewRunId, command)
        /\ UNCHANGED <<agent, dispatcher, mailer, stream>>

\* _run_subprocess: create_subprocess_exec returns the process, whose
\* output is o, and the two pumps and the control loop are created; or it
\* raises
Launch(r, o) ==
    /\ task[r] = "created"
    /\ \/ /\ proc' = [proc EXCEPT ![r] = "running"]
          /\ task' = [task EXCEPT ![r] = "waiting"]
          /\ written' = [written EXCEPT ![r] = o]
          /\ pending' = [pending EXCEPT ![r] = o]
          /\ pump' = [pump EXCEPT ![r] = [s \in Streams |-> "reading"]]
          /\ ctl' = [ctl EXCEPT ![r] = "running"]
       \/ /\ task' = [task EXCEPT ![r] = "failed"]
          /\ UNCHANGED <<proc, written, pending, pump, ctl>>
    /\ UNCHANGED <<agent, dispatcher, mailer, runs, active_run_id, request, response, queue,
                   stop_requested, signal, consumer, delivered, stops, stop_due>>

\* pump: readline returns the next line of the stream and the line message
\* is put, or readline raises on an over-long line and the pump task ends
\* with the exception
Pump(r, s) ==
    /\ pump[r][s] = "reading"
    /\ pending[r][s] # <<>>
    /\ pending' = [pending EXCEPT ![r][s] = Tail(pending[r][s])]
    /\ IF Head(pending[r][s]) = LongLine
       THEN /\ pump' = [pump EXCEPT ![r][s] = "raised"]
            /\ UNCHANGED queue
       ELSE /\ queue' = [queue EXCEPT ![r] = Append(queue[r], LineMsg(s, Head(pending[r][s])))]
            /\ UNCHANGED pump
    /\ UNCHANGED <<agent, dispatcher, mailer, runs, active_run_id, task, proc, request, response,
                   written, ctl, stop_requested, signal, consumer, delivered, stops, stop_due>>

\* pump: readline returns b"" once the subprocess has ended and every line
\* was read
PumpEof(r, s) ==
    /\ pump[r][s] = "reading"
    /\ pending[r][s] = <<>>
    /\ proc[r] \notin {"none", "running"}
    /\ pump' = [pump EXCEPT ![r][s] = "eof"]
    /\ UNCHANGED <<agent, dispatcher, mailer, runs, active_run_id, task, proc, request, response,
                   queue, written, pending, ctl, stop_requested, signal, consumer, delivered,
                   stops, stop_due>>

\* control_loop: a message is taken from the queue; a stop message sets the
\* event, signals the subprocess if it has not ended and ends the loop, any
\* other message is dropped
ControlTakes(r) ==
    /\ ctl[r] = "running"
    /\ queue[r] # <<>>
    /\ queue' = [queue EXCEPT ![r] = Tail(queue[r])]
    /\ IF Head(queue[r]).type = "control"
       THEN /\ stop_requested' = [stop_requested EXCEPT ![r] = TRUE]
            /\ signal' = [signal EXCEPT ![r] =
                            IF proc[r] = "running" THEN "SIGTERM" ELSE signal[r]]
            /\ ctl' = [ctl EXCEPT ![r] = "returned"]
       ELSE UNCHANGED <<stop_requested, signal, ctl>>
    /\ UNCHANGED <<agent, dispatcher, mailer, runs, active_run_id, task, proc, request, response,
                   written, pending, pump, consumer, delivered, stops, stop_due>>

\* the subprocess exits and proc.wait() returns within the timeout
ProcExits(r) ==
    /\ task[r] = "waiting"
    /\ proc[r] = "running"
    /\ proc' = [proc EXCEPT ![r] = IF signal[r] = "SIGTERM" THEN "terminated" ELSE "exited"]
    /\ task' = [task EXCEPT ![r] = "draining"]
    /\ UNCHANGED <<agent, dispatcher, mailer, runs, active_run_id, request, response, stream>>

\* asyncio.TimeoutError after 90 s: the timeout line is put, the subprocess
\* is killed and waited for
Timeout(r) ==
    /\ task[r] = "waiting"
    /\ proc[r] = "running"
    /\ queue' = [queue EXCEPT ![r] = Append(queue[r], TimeoutLine)]
    /\ signal' = [signal EXCEPT ![r] = "SIGKILL"]
    /\ proc' = [proc EXCEPT ![r] = "killed"]
    /\ task' = [task EXCEPT ![r] = "draining"]
    /\ UNCHANGED <<agent, dispatcher, mailer, runs, active_run_id, request, response, written,
                   pending, pump, ctl, stop_requested, consumer, delivered, stops, stop_due>>

\* await pump_out, await pump_err: the exception of a pump is raised when
\* that pump is awaited
PumpRaised(r) ==
    \/ pump[r]["stdout"] = "raised"
    \/ pump[r]["stdout"] = "eof" /\ pump[r]["stderr"] = "raised"

PumpsDone(r) == \A s \in Streams : pump[r][s] = "eof"

\* the finally block leaving the marker as it is after an exception
MarkerAfterKept(r) == IF task[r] = "failed" \/ PumpRaised(r) THEN active_run_id ELSE NoRun

\* finally: _active_run_id = None
MarkerAfter(r) == NoRun

\* the end of _run_subprocess: both pumps have ended, the control loop is
\* cancelled and the done message is put; or, after an exception, the error
\* line and the done message with exit code 1 are put; then the finally
\* block clears the marker
Finish(r) ==
    /\ \/ task[r] = "failed"
       \/ task[r] = "draining" /\ (PumpRaised(r) \/ PumpsDone(r))
    /\ IF task[r] = "failed" \/ PumpRaised(r)
       THEN /\ queue' = [queue EXCEPT ![r] = queue[r] \o <<ErrorLine, DoneMsg(1)>>]
            /\ UNCHANGED ctl
       ELSE /\ ctl' = [ctl EXCEPT ![r] = IF ctl[r] = "running" THEN "cancelled" ELSE ctl[r]]
            /\ queue' = [queue EXCEPT ![r] = Append(queue[r], DoneMsg(ReturnCode(proc[r])))]
    /\ task' = [task EXCEPT ![r] = "done"]
    /\ active_run_id' = MarkerAfter(r)
    /\ UNCHANGED <<agent, dispatcher, mailer, runs, proc, request, response, written, pending, pump,
                   stop_requested, signal, consumer, delivered, stops, stop_due>>

StopRequest == <<"/stop">>

\* POST /stop/{run_id} (stop_run)
PostStop(run_id) ==
    /\ request' = StopRequest
    /\ IF run_id \notin DOMAIN runs
       THEN /\ response' = JSONResponse([detail |-> "run_id not found"], 404)
            /\ UNCHANGED <<queue, stops, stop_due>>
       ELSE /\ stops[run_id] < MaxStops
            /\ queue' = [queue EXCEPT ![run_id] = Append(queue[run_id], ControlMsg)]
            /\ stops' = [stops EXCEPT ![run_id] = stops[run_id] + 1]
            /\ stop_due' = [stop_due EXCEPT ![run_id] =
                                stop_due[run_id] \/ proc[run_id] = "running"]
            /\ response' = JSONResponse([status |-> "stopping"], 200)
    /\ UNCHANGED <<agent, dispatcher, mailer, runs, active_run_id, task, proc, written, pending,
                   pump, ctl, stop_requested, signal, consumer, delivered>>

\* GET /events/{run_id} (events) for a registered run: the generator starts
OpenEvents(r) ==
    /\ r \in DOMAIN runs
    /\ consumer[r] = "none"
    /\ consumer' = [consumer EXCEPT ![r] = "open"]
    /\ UNCHANGED <<agent, dispatcher, mailer, runs, active_run_id, task, proc, request, response,
                   queue, written, pending, pump, ctl, stop_requested, signal, delivered,
                   stops, stop_due>>

\* gen: a message is taken from the queue; a line is yielded as a line
\* event, a done message as the done event that ends the stream, a control
\* message is dropped
ConsumerTakes(r) ==
    /\ consumer[r] = "open"
    /\ queue[r] # <<>>
    /\ queue' = [queue EXCEPT ![r] = Tail(queue[r])]
    /\ CASE Head(queue[r]).type = "line" ->
                /\ delivered' = [delivered EXCEPT ![r] = Append(delivered[r], Head(queue[r]))]
                /\ UNCHANGED consumer
         [] Head(queue[r]).type = "done" ->
                /\ delivered' = [delivered EXCEPT ![r] = Append(delivered[r], Head(queue[r]))]
                /\ consumer' = [consumer EXCEPT ![r] = "closed"]
         [] OTHER -> UNCHANGED <<delivered, consumer>>
    /\ UNCHANGED <<agent, dispatcher, mailer, runs, active_run_id, task, proc, request, response,
                   written, pending, pump, ctl, stop_requested, signal, stops, stop_due>>

\* the front-end with subprocesses that write nothing, nobody stopping a run
\* or listening to one
FrontNext ==
    \/ \E c \in Commands : PostRun(c)
    \/ \E r \in RunIds : Launch(r, NoOutput)
    \/ \E r \in RunIds : ProcExits(r)
    \/ \E r \in RunIds : Timeout(r)
    \/ \E r \in RunIds, s \in Streams : PumpEof(r, s)
    \/ \E r \in RunIds : Finish(r)

\* the front-end with the writers and the readers of a run queue, until its
\* first run has been registered
StreamNext ==
    \/ DOMAIN runs = {} /\ PostRun(StatusCommand)
    \/ \E r \in RunIds, o \in Outputs : Launch(r, o)
    \/ \E r \in RunIds, s \in Streams : Pump(r, s)
    \/ \E r \in RunIds, s \in Streams : PumpEof(r, s)
    \/ \E r \in RunIds : ControlTakes(r)
    \/ \E r \in RunIds : ProcExits(r)
    \/ \E r \in RunIds : Timeout(r)
    \/ \E r \in RunIds : Finish(r)
    \/ \E r \in RunIds \cup {MaxRuns + 1} : PostStop(r)
    \/ \E r \in RunIds : OpenEvents(r)
    \/ \E r \in RunIds : ConsumerTakes(r)

(* --------------------------- the email server -------------------------- *)

\* the status send_email compares with, after strip and lower
CancelledText == <<"c", "a", "n", "c", "e", "l", "l", "e", "d">>

\* the same status as data.json may hold it
CancelledAsStored == <<"C", "a", "n", "c", "e", "l", "l", "e", "d", " ">>

PendingText == <<"p", "e", "n", "d", "i", "n", "g">>

\* order["status"] = "shipped"
ShippedText == <<"s", "h", "i", "p", "p", "e", "d">>

\* the statuses and the customer emails of the orders before the first call
StoredStatuses == {CancelledText, CancelledAsStored, PendingText}

StoredEmails == {<<"a">>, <<"B", " ">>}

\* the email argument of a call: the first matches <<"a">> and the second
\* <<"B", " ">> after strip and lower, the third matches no order
Emails == {<<" ", "A">>, <<"b">>, <<"c">>}

\* the most orders data.json holds
MaxOrders == 2

\* the most tool calls the server serves
MaxCalls == 3

\* an order of data.json no email was sent for: no email_events, no
\* email_status, no email_message_id (0)
Order(customer_email, status) ==
    [customer_email |-> customer_email, status |-> status, email_events |-> <<>>,
     email_status |-> "", email_message_id |-> 0]

\* data["orders"], in the order of the file
Databases ==
    UNION { [1..n -> { Order(e, st) : e \in StoredEmails, st \in StoredStatuses }] :
                n \in 0..MaxOrders }

\* _load_db and _save_db: both succeed, the read raises, or the write raises
\* and leaves the file as it was
DbOutcomes == {"ok", "load_fails", "save_fails"}

\* return None, None
NoOrder == 0

\* a key the returned payload does not have
NoKey == -1

\* the first order whose customer_email is the email, both stripped and
\* lowered
find_order_by_email(data, email) ==
    LET norm_email == lower(strip(email))
        hits == { i \in DOMAIN data : lower(strip(data[i].customer_email)) = norm_email }
    IN  IF hits = {} THEN NoOrder
        ELSE CHOOSE i \in hits : \A j \in hits : i <= j

\* the event both tools record (ts and subject left out)
SentEvent(message_id, to, type) ==
    [event |-> "sent", message_id |-> message_id, to |-> to, type |-> type]

append_email_event(order, event) ==
    [order EXCEPT !.email_events = Append(@, event),
                  !.email_status = event.event,
                  !.email_message_id = event.message_id]

\* a stored status compared as it is
IsCancelledAsStored(order) == order.status = CancelledText

\* status = str(order.get("status", "")).strip().lower(); status == "cancelled"
IsCancelled(order) == lower(strip(order.status)) = CancelledText

\* the JSON payload a tool returns
Reply(message_id, order_id, skipped) ==
    [ok |-> TRUE, message_id |-> message_id, order_id |-> order_id, skipped |-> skipped]

NoReply == [ok |-> FALSE, message_id |-> 0, order_id |-> NoKey, skipped |-> FALSE]

\* the server before its first call, with no data.json to speak of
MailerIdle ==
    /\ orders = <<>>
    /\ was_cancelled = {}
    /\ served = 0
    /\ reply = NoReply

\* send_email(email, order_details): uuid4 gives a message id no call had
SendEmail(email, db) ==
    /\ served < MaxCalls
    /\ served' = served + 1
    /\ LET message_id == served + 1
           order_id == find_order_by_email(orders, email)
       IN  IF db = "load_fails"
           THEN /\ reply' = Reply(message_id, NoKey, FALSE)
                /\ UNCHANGED orders
           ELSE IF order_id = NoOrder
           THEN /\ reply' = Reply(message_id, NoOrder, FALSE)
                /\ UNCHANGED orders
           ELSE IF IsCancelled(orders[order_id])
           THEN /\ reply' = Reply(message_id, order_id, TRUE)
                /\ UNCHANGED orders
           ELSE /\ reply' = Reply(message_id, NoKey, FALSE)
                /\ IF db = "save_fails"
                   THEN UNCHANGED orders
                   ELSE orders' =
                          [orders EXCEPT ![order_id] =
                              append_email_event([@ EXCEPT !.status = ShippedText],
                                  SentEvent(message_id, strip(email), "shipping_confirmation"))]
    /\ UNCHANGED <<agent, front, dispatcher, was_cancelled>>

\* send_custom(email, subject, message)
SendCustom(email, db) ==
    /\ served < MaxCalls
    /\ served' = served + 1
    /\ LET message_id == served + 1
           order_id == find_order_by_email(orders, email)
       IN  /\ reply' = Reply(message_id, NoKey, FALSE)
           /\ IF db = "ok" /\ order_id # NoOrder
              THEN orders' =
                     [orders EXCEPT ![order_id] =
                         append_email_event(@, SentEvent(message_id, strip(email), "custom"))]
              ELSE UNCHANGED orders
    /\ UNCHANGED <<agent, front, dispatcher, was_cancelled>>

\* the tools of the email server, called in any order
MailNext ==
    \/ \E email \in Emails, db \in DbOutcomes : SendEmail(email, db)
    \/ \E email \in Emails, db \in DbOutcomes : SendCustom(email, db)

\* a run of the agent against the two servers of the repository, the
\* front-end idle
Init == Start(Instructions, {"", "sk"}, {"", "http"}, {RealListing}) /\ AnyProvider /\ FrontIdle /\ DispatcherIdle
    /\ MailerIdle

\* the instructions of the runs against servers in general: one decided by
\* the fast path, one by the classifier
RegistryInstructions == { s \in Instructions : ~suspicious(s) }

\* a run of the agent against two servers in general
RegistryInit == Start(RegistryInstructions, {"sk"}, {""}, Listings) /\ AnyProvider /\ FrontIdle /\ DispatcherIdle
    /\ MailerIdle

Next ==
    \/ ConnectCrm
    \/ ConnectEmail
    \/ ListCrm
    \/ ListEmail
    \/ Guard
    \/ GuardResponse
    \/ Decide
    \/ LoopTop
    \/ CompletionResponse
    \/ Route
    \/ ToolResult
    \/ Finally
    \/ \E s \in Servers : Close(s)

Spec == Init /\ [][Next]_vars

RegistrySpec == RegistryInit /\ [][Next]_vars

\* the front-end serving requests, no agent process of this model running
FrontInit == Start({StatusCommand}, {"sk"}, {""}, {RealListing}) /\ AnyProvider /\ FrontIdle /\ DispatcherIdle
    /\ MailerIdle

FrontSpec == FrontInit /\ [][FrontNext]_vars

\* the steps of the _run_subprocess tasks of the front-end whose
\* subprocesses write nothing
TaskStep ==
    \E r \in RunIds :
        \/ Launch(r, NoOutput)
        \/ ProcExits(r)
        \/ Timeout(r)
        \/ \E s \in Streams : PumpEof(r, s)
        \/ Finish(r)

\* the event loop runs a task that can take a step; the subprocess exits or
\* the 90 s timeout fires; a pipe is at its end once the subprocess has ended
FairFrontNext ==
    \/ \E c \in {StatusCommand, BlankCommand} : PostRun(c)
    \/ TaskStep

\* the front-end asked for runs again and again, every task going on
FairFrontSpec == FrontInit /\ [][FairFrontNext]_vars /\ WF_vars(TaskStep)

\* the front-end with its run queues
StreamSpec == FrontInit /\ [][StreamNext]_vars

\* one tool result handled, for every tool and every content list
PayloadInit ==
    /\ Start({StatusCommand}, {"sk"}, {""}, {RealListing})
    /\ AnyProvider
    /\ FrontIdle
    /\ MailerIdle
    /\ result_name \in {get_order, send_email}
    /\ result_content \in Contents
    /\ tool_output = <<>>
    /\ emitted = <<>>
    /\ fed_back = <<>>
    /\ payload_pc = "call_tool"

PayloadNext == dispatch_tool_call \/ AfterDispatch

PayloadSpec == PayloadInit /\ [][PayloadNext]_vars

\* a run whose conversation is kept, against a provider that answers every
\* loop request with the same batch, with a final text or with an error
ConversationInit ==
    /\ Start(RegistryInstructions, {"sk"}, {"", "http"}, {RealListing})
    /\ script \in Batches
    /\ recording = TRUE
    /\ FrontIdle
    /\ DispatcherIdle
    /\ MailerIdle

ConversationSpec == ConversationInit /\ [][Next]_vars

\* the email server over every small data.json, the agent and the front-end
\* idle
MailInit ==
    /\ Start({StatusCommand}, {"sk"}, {""}, {RealListing})
    /\ AnyProvider
    /\ FrontIdle
    /\ DispatcherIdle
    /\ orders \in Databases
    /\ was_cancelled = { i \in DOMAIN orders : lower(strip(orders[i].status)) = CancelledText }
    /\ served = 0
    /\ reply = NoReply

MailSpec == MailInit /\ [][MailNext]_vars

\* every awaited call returns or raises, and the flow goes on after it
FairSpec == Spec /\ WF_vars(Next)

(* ------------------------------ claims --------------------------------- *)

\* the positions of the finally block and after it
CleanupPcs == {"finally", "close_email", "close_crm", "done"}

\* the positions of the tool-calling loop
LoopPcs == {"loop_top", "completion", "route", "call_tool"}

\* the connection of s was opened: run_agent holds its session
Opened(s) == IF s = "crm" THEN crm_session = "set" ELSE email_session = "set"

\* the connection of s is closed: the close of its transport was carried out
Closed(s) == transport[s] \in {"closed", "broken"}

\* whether each instruction has an order-id token, a block keyword
HasOrderId == [s \in Instructions |-> order_id_present(s)]

HasKeyword == [s \in Instructions |-> suspicious(s)]

\* the exit paths of a run that C1 names
NamedExits ==
    {"final_text", "terminal_action", "block", "clarify", "MissingCredential",
     "ProtocolError", "ToolDispatchError", "IterationExhaustion"}

\* C1: when a run has ended on one of the named exit paths and its outcome is
\* reported, every connection that was opened in the run is closed.
C1_ClosedBeforeOutcome ==
    (pc = "done" /\ outcome \in NamedExits) => \A s \in Servers : Opened(s) => Closed(s)

\* C2: an instruction with an order-id token is decided ALLOW, also when it
\* contains a block keyword, and no classifier request is sent for it.
C2_OrderIdAllows ==
    HasOrderId[user_input] =>
        /\ classifier_requests = 0
        /\ pc # "classifier"
        /\ guard_evals > 0 => guard_decision = FastAllow
        /\ (guard_evals > 0 /\ pc # "decide") => decision = ALLOW

\* an instruction with an order id and a block keyword was allowed and its
\* first loop request is out
C2_Witness ==
    /\ HasOrderId[user_input]
    /\ HasKeyword[user_input]
    /\ decision = ALLOW
    /\ pc = "completion"

\* the guard ended with something else than ALLOW
NotAllowed == (decision # <<>> /\ decision # ALLOW) \/ outcome = "GuardError"

\* C3: with any guard outcome other than ALLOW the loop never starts: no
\* loop completion request is sent and no tool call is dispatched.
C3_OnlyAllowStartsLoop ==
    NotAllowed => (pc \notin LoopPcs /\ loop_requests = 0 /\ dispatched = <<>>)

\* C4: the guard is evaluated once, at most one classifier request is sent,
\* and a loop request or a tool call is out only when the decision is fixed.
C4_GuardOnceBeforeDispatch ==
    /\ guard_evals <= 1
    /\ classifier_requests <= 1
    /\ ((\E r \in in_flight : r.kind \in {"call_tool", "completion"})
            \/ dispatched # <<>> \/ loop_requests > 0)
        => (guard_evals = 1 /\ decision # <<>>)

\* a tool call is in flight in a run whose decision came from the classifier
C4_Witness ==
    /\ \E r \in in_flight : r.kind = "call_tool"
    /\ classifier_requests = 1

\* C5: an instruction without an order-id token that contains a block
\* keyword is decided BLOCK, and the classifier is not asked.
C5_KeywordBlocks ==
    (~HasOrderId[user_input] /\ HasKeyword[user_input]) =>
        /\ classifier_requests = 0
        /\ pc # "classifier"
        /\ guard_evals > 0 => guard_decision = FastBlock
        /\ (guard_evals > 0 /\ pc # "decide") => (decision = BLOCK /\ outcome = "block")

\* a keyword instruction written in another letter case ended with the refusal
C5_Witness ==
    /\ ~HasOrderId[user_input]
    /\ HasKeyword[user_input]
    /\ user_input # lower(user_input)
    /\ pc = "done"
    /\ printed = "refusal"

\* the classifier's text did not yield an object with a decision
NotParsed(gd) ==
    \/ gd.type # "object"
    \/ gd.decision.type = "absent"
    \/ gd = Unparseable

\* C6: when the classifier's text does not parse as a {decision, reason}
\* object, the decision is CLARIFY and the run ends on the clarification
\* branch, not with an error.
C6_UnparseableClarifies ==
    (/\ classifier_requests = 1
     /\ guard_decision.type # "unset"
     /\ NotParsed(guard_decision)
     /\ pc \in CleanupPcs)
        => (decision = CLARIFY /\ outcome = "clarify")

NormalOutcomes == {"final_text", "terminal_action", "block", "clarify"}

\* C7: the exit code is 0 exactly when the run reached a normal terminal
\* outcome (BLOCK and CLARIFY with their fixed messages), non-zero otherwise.
C7_ExitCode ==
    pc = "done" =>
        /\ exit_code = 0 <=> outcome \in NormalOutcomes
        /\ outcome = "block" => printed = "refusal"
        /\ outcome = "clarify" => printed = "clarification"

\* the loop was started and control has left it
LoopLeft == pc \in CleanupPcs /\ iteration > 0

\* C8 as stated: the loop is left only by Terminal (a final text, a terminal
\* tool action) or by IterationExhaustion.
C8_OnlyTerminalOrExhaustion ==
    LoopLeft => outcome \in {"final_text", "terminal_action", "IterationExhaustion"}

\* the ways the loop is left
LoopExits ==
    {"final_text", "terminal_action", "IterationExhaustion", "ProtocolError",
     "ToolDispatchError", "ProviderError", "ToolCallError"}

\* C8 amended: a started loop always ends, within 8 cycles, and it is left
\* only by Terminal, by IterationExhaustion after the 8th cycle, or by a fatal
\* error raised inside a cycle.
C8_LoopEnds ==
    /\ [](iteration <= MaxIterations /\ loop_requests <= MaxIterations)
    /\ [](LoopLeft => outcome \in LoopExits)
    /\ []((LoopLeft /\ outcome = "IterationExhaustion") => iteration = MaxIterations)
    /\ (pc = "loop_top" /\ iteration = 0) ~> (pc = "done")

\* the run ended by exhaustion after the 8th cycle
C8_Witness ==
    /\ pc = "done"
    /\ outcome = "IterationExhaustion"
    /\ iteration = MaxIterations

\* C9: the calls of a response are dispatched in the listed order, each only
\* when the result of the one before was received, and never more than one
\* request (completion or tool call) is in flight.
C9_SequentialDispatch ==
    /\ Cardinality(in_flight) <= 1
    /\ Len(dispatched) <= Len(tool_calls)
    /\ \A i \in 1..Len(dispatched) : dispatched[i] = tool_calls[i].id
    /\ pc = "route" => (Len(dispatched) = call_index - 1 /\ in_flight = {})
    /\ pc = "call_tool" =>
        /\ Len(dispatched) = call_index
        /\ \E r \in in_flight : r.kind = "call_tool" /\ r.id = tool_calls[call_index].id

\* the second call of a batch is in flight, after the result of the first
C9_Witness ==
    /\ pc = "call_tool"
    /\ dispatched = <<1, 2>>

\* C10: a dispatched call whose name begins with "send" is the last call of
\* its batch to be dispatched, and once its result is there the run is
\* Terminal: control has left the loop and no completion request follows.
C10_TerminalActionEndsRun ==
    \A i \in 1..Len(dispatched) :
        IsTerminalName(tool_calls[i].name) =>
            /\ i = Len(dispatched)
            /\ \/ pc = "call_tool"
               \/ pc \in CleanupPcs /\ outcome \in {"terminal_action", "ToolCallError"}
            /\ outcome = "terminal_action" => printed = "confirmation"

\* a send call listed first ended the run with a later call never dispatched
C10_Witness ==
    /\ pc = "done"
    /\ outcome = "terminal_action"
    /\ Len(tool_calls) = 2
    /\ dispatched = <<1>>

\* C11: a tool name without a routing-table entry is fatal. The step that
\* looks the name up raises the dispatch error without invoking call_tool and
\* without touching the list of dispatched calls, and from then on the run is
\* in its cleanup with that outcome: the failed call was never dispatched, the
\* dispatched calls are exactly the ones before it, nothing is in flight.
Unroutable(call) ==
    /\ Prepare(ChatShape, call).error = "none"
    /\ Lookup(sessions_by_tool, call.name) = NoSession

C11_UnroutableIsFatal ==
    /\ [][(pc = "route" /\ Unroutable(tool_calls[call_index]))
            => /\ outcome' = "ToolDispatchError"
               /\ pc' = "finally"
               /\ in_flight' = {}
               /\ UNCHANGED <<dispatched, call_index, tool_calls>>]_vars
    /\ [](outcome = "ToolDispatchError"
            => /\ pc \in CleanupPcs
               /\ call_index \in 1..Len(tool_calls)
               /\ Unroutable(tool_calls[call_index])
               /\ Len(dispatched) = call_index - 1
               /\ \A i \in 1..Len(dispatched) : dispatched[i] = tool_calls[i].id
               /\ in_flight = {}
               /\ exc # "none")
    /\ []((pc = "done" /\ outcome = "ToolDispatchError") => exit_code = 1)

\* the first call of a batch of two had no entry: the run ended with the
\* dispatch error and the second call was never dispatched
C11_Witness ==
    /\ pc = "done"
    /\ outcome = "ToolDispatchError"
    /\ Len(tool_calls) = 2
    /\ call_index = 1
    /\ dispatched = <<>>
    /\ Lookup(sessions_by_tool, tool_calls[2].name) # NoSession

\* C13: when the handshake of a connection failed, the setup error has left
\* run_agent only after the close of every connection opened before it was
\* carried out.
C13_SetupErrorClosesOpened ==
    (pc = "done" /\ outcome = "SetupError") =>
        /\ \A s \in Servers : Opened(s) => Closed(s)
        /\ exit_code = 1

\* the email handshake failed after its transport was entered, with the crm
\* connection open: the run ended with the crm connection closed
C13_Witness ==
    /\ pc = "done"
    /\ outcome = "SetupError"
    /\ Opened("crm")
    /\ ~Opened("email")
    /\ transport["email"] = "open"
    /\ transport["crm"] = "closed"

\* C14: connections are closed in reverse creation order. With both opened,
\* the close of crm is reached or carried out only after the close of email
\* was carried out, and no run ends with the email connection not closed.
C14_ReverseCreationOrder ==
    (Opened("crm") /\ Opened("email")) =>
        /\ (pc = "close_crm" \/ Closed("crm")) => Closed("email")
        /\ pc = "done" => Closed("email")
        /\ pc = "close_email" => transport["crm"] = "open"

\* both connections were opened and the crm close is about to start, email
\* closed already
C14_Witness ==
    /\ pc = "close_crm"
    /\ Opened("crm") /\ Opened("email")
    /\ transport["email"] = "closed"
    /\ transport["crm"] = "open"

\* C17: a run without API key ends with the credential error before any run
\* logic: the guard not evaluated, no provider request sent, no tool call
\* dispatched, and every opened connection closed.
C17_MissingCredentialFatal ==
    /\ outcome = "MissingCredential" =>
        /\ api_key = ""
        /\ guard_evals = 0
        /\ classifier_requests = 0
        /\ loop_requests = 0
        /\ dispatched = <<>>
        /\ pc \in CleanupPcs
    /\ (pc = "done" /\ outcome = "MissingCredential") =>
        /\ exit_code = 1
        /\ \A s \in Servers : Opened(s) => Closed(s)

\* C20: the iteration counter never exceeds 8 and one loop request is sent
\* per cycle, so at most 8; the exhaustion error is raised exactly after 8
\* cycles that each handled every tool call of a response with at least one
\* call, none of them a terminal action or an error: with 8 such cycles the
\* next step raises it, and it is never raised with fewer.
C20_CounterBound ==
    /\ [](iteration <= MaxIterations /\ loop_requests = iteration
            /\ full_cycles <= iteration)
    /\ [](outcome = "IterationExhaustion"
            => (full_cycles = MaxIterations /\ loop_requests = MaxIterations))
    /\ [][(pc = "loop_top" /\ full_cycles = MaxIterations)
            => outcome' = "IterationExhaustion"]_vars
    /\ []((full_cycles = MaxIterations /\ pc \in CleanupPcs)
            => outcome = "IterationExhaustion")

\* the run ended with the exhaustion error after 8 full cycles
C20_Witness ==
    /\ pc = "done"
    /\ outcome = "IterationExhaustion"
    /\ full_cycles = MaxIterations
    /\ loop_requests = MaxIterations
    /\ exit_code = 1

\* C16: the two protocol shapes normalize alike. For the call at hand, with
\* a name and an argument string (the empty string included), the code of
\* Shape A and the code of Shape B extract the same tool name and the same
\* argument map, or fail alike, so that the dispatches and the outcome of
\* the two runs agree.
C16_ShapesNormalizeAlike ==
    (pc = "route" /\ tool_calls[call_index].name # NoName
                  /\ tool_calls[call_index].arguments # "none")
        => Prepare(TRUE, tool_calls[call_index]) = Prepare(FALSE, tool_calls[call_index])

\* C15: the protocol shape is fixed for the run by the presence of the
\* alternate endpoint. Every provider request sent so far, the classifier
\* request and the loop request of every cycle, used one and the same shape:
\* chat completions when base_url is set, the responses API when it is not;
\* and a response is handled in the shape its request was sent in.
C15_ShapeFixed ==
    /\ \A u1 \in shapes_used, u2 \in shapes_used : u1.shape = u2.shape
    /\ \A u \in shapes_used : u.shape = "chat" <=> base_url # ""
    /\ classifier_requests > 0 => \E u \in shapes_used : u.request = "classifier"
    /\ loop_requests > 0
        => Used("completion", IF ChatShape THEN "chat" ELSE "responses") \in shapes_used

\* with the alternate endpoint set, the classifier request and the loop
\* requests of two cycles all went out as chat completions
C15_Witness ==
    /\ base_url # ""
    /\ iteration = 2
    /\ pc = "completion"
    /\ shapes_used = {Used("classifier", "chat"), Used("completion", "chat")}

\* the routing table has been built
RegistryBuilt ==
    /\ pc \notin {"connect_crm", "connect_email", "list_crm", "list_email"}
    /\ outcome \notin {"SetupError", "ListToolsError"}

\* C12: the routing table maps every tool name of either server to a
\* connection and nothing else; a name of the email server goes to the email
\* connection, also when the crm server exposes it too, and every other name
\* to the crm connection; and a call is given to the connection of its entry.
C12_RoutingTableUnion ==
    /\ RegistryBuilt =>
        /\ DOMAIN sessions_by_tool
             = Range(server_tools["crm"]) \cup Range(server_tools["email"])
        /\ \A n \in Range(server_tools["email"]) : sessions_by_tool[n] = "email"
        /\ \A n \in Range(server_tools["crm"]) \ Range(server_tools["email"]) :
                sessions_by_tool[n] = "crm"
    /\ pc = "call_tool" =>
        \E r \in in_flight :
            /\ r.kind = "call_tool"
            /\ r.id = tool_calls[call_index].id
            /\ r.server = IF tool_calls[call_index].name \in Range(server_tools["email"])
                          THEN "email" ELSE "crm"

\* get_order is exposed by both servers and a call of it is awaited on the
\* email connection
C12_Witness ==
    /\ get_order \in Range(server_tools["crm"]) \cap Range(server_tools["email"])
    /\ pc = "call_tool"
    /\ tool_calls[call_index].name = get_order
    /\ Request("call_tool", "email", tool_calls[call_index].id) \in in_flight

\* the refusal the guard test expects for an out-of-scope command
RefusalPrefix == <<"I", " ", "c", "a", "n", "'", "t", " ", "h", "e", "l", "p", " ", "w", "i", "t", "h", " ", "j", "o", "k", "e", "s", " ", "o", "r", " ", "u", "n", "r", "e", "l", "a", "t", "e", "d", " ", "r", "e", "q", "u", "e", "s", "t", "s", ".">>

\* body.get(key) == value
Field(body, key, value) == key \in DOMAIN body /\ body[key] = value

\* C18: POST /run gates the command through the policy guard. Whenever the
\* request handled last was not turned away for a run in progress: the
\* command with an order id was answered 200 with blocked false and a run id,
\* the out-of-scope command 200 with blocked true, decision BLOCK and the
\* refusal text, the question without an order id 200 with blocked true and
\* decision CLARIFY; and neither of the latter two started a run.
C18_RunGatedByGuard ==
    response.status \notin {0, 409} =>
        /\ request = StatusCommand =>
            /\ response.status = 200
            /\ Field(response.body, "blocked", FALSE)
            /\ "run_id" \in DOMAIN response.body
        /\ request = JokeCommand =>
            /\ response.status = 200
            /\ Field(response.body, "blocked", TRUE)
            /\ Field(response.body, "decision", BLOCK)
            /\ "assistant" \in DOMAIN response.body
            /\ startswith(response.body["assistant"], RefusalPrefix)
            /\ "run_id" \notin DOMAIN response.body
        /\ request = ClarifyCommand =>
            /\ response.status = 200
            /\ Field(response.body, "blocked", TRUE)
            /\ Field(response.body, "decision", CLARIFY)
            /\ "run_id" \notin DOMAIN response.body

\* the commands POST /run accepts
ValidCommands == { c \in Commands : strip(c) # <<>> /\ Len(strip(c)) <= MaxCommandLen }

\* the runs whose task has not ended
Unfinished == { r \in RunIds : task[r] \notin {"none", "done"} }

\* C19 as stated: every POST /run handled while a run is in progress is
\* answered 409 and leaves the registry, the marker, the tasks and the
\* subprocesses as they were.
C19_AnyPostWhileActive ==
    [][\A c \in Commands :
        (active_run_id # NoRun /\ PostRun(c))
            => (response'.status = 409 /\ UNCHANGED <<runs, active_run_id, task, proc>>)]_vars

\* C19: at most one run is active at any time. At most one task has not
\* ended and at most one subprocess runs, and it is the run of the marker; a
\* POST /run with an acceptable command handled while the marker is set is
\* answered 409, one with a blank or too long command 400, and either leaves
\* the registry, the marker, the tasks and the subprocesses as they were.
C19_SingleActiveRun ==
    /\ [](Cardinality(Unfinished) <= 1)
    /\ [](Cardinality({ r \in RunIds : proc[r] = "running" }) <= 1)
    /\ [](\A r \in Unfinished : active_run_id = r)
    /\ [](active_run_id # NoRun => active_run_id \in Unfinished)
    /\ [][\A c \in Commands :
            (active_run_id # NoRun /\ PostRun(c))
                => /\ response'.status = IF c \in ValidCommands THEN 409 ELSE 400
                   /\ UNCHANGED <<runs, active_run_id, task, proc>>]_vars

\* the second run is in progress, the first having ended, and a POST /run
\* was answered 409
C19_Witness ==
    /\ active_run_id = 2
    /\ proc[2] = "running"
    /\ task[1] = "done"
    /\ response.status = 409
    /\ DOMAIN runs = {1, 2}

\* C23: cleanup closes every opened connection whatever happens during the
\* cleanup itself: no run ends with an opened connection whose close was not
\* carried out, and within one connection the close of the transport is
\* carried out whenever the close of the session was, also when that raised.
C23_CleanupRegardless ==
    /\ pc = "done" => \A s \in Servers : Opened(s) => Closed(s)
    /\ \A s \in Servers : session[s] \in {"exited", "broken"} => Closed(s)

\* C24: a connection whose handshake failed is itself torn down. When the
\* setup error has left run_agent, no connection that did not become ready
\* has its transport still open or its session still entered.
C24_FailedHandshakeTornDown ==
    (pc = "done" /\ outcome = "SetupError") =>
        \A s \in Servers :
            ~Opened(s) => (transport[s] # "open" /\ session[s] # "entered")

\* how far the lifecycle of a session has come: Connecting, Ready, Closed
Rank(state) ==
    CASE state = "none" -> 0
      [] state = "entered" -> 1
      [] state = "ready" -> 2
      [] OTHER -> 3

\* C25: the lifecycle of a connection only moves forward; list_tools and
\* call_tool are awaited only on a ready connection, none is awaited once the
\* cleanup has begun, the close of a connection is carried out at most once,
\* and at the end of the run that of every opened connection was carried out.
C25_LifecycleForward ==
    /\ [][\A s \in Servers : Rank(session'[s]) >= Rank(session[s])]_vars
    /\ [](\A r \in in_flight :
            r.kind \in {"list_tools", "call_tool"} => session[r.server] = "ready")
    /\ [](pc \in CleanupPcs => in_flight = {})
    /\ [][\A s \in Servers : Closed(s) => transport'[s] = transport[s]]_vars
    /\ [](pc = "done" => \A s \in Servers : Opened(s) => Closed(s))

\* C27: the tool-spec list agrees with the routing table: its names are the
\* keys of the table, it has one spec per key, also when both servers expose
\* a name, and the specs of the crm server come first.
C27_SpecsMatchTable ==
    RegistryBuilt =>
        /\ Range(tool_specs) = DOMAIN sessions_by_tool
        /\ Len(tool_specs) = Cardinality(DOMAIN sessions_by_tool)
        /\ SubSeq(tool_specs, 1, Len(server_tools["crm"])) = server_tools["crm"]

\* a call without tool name, without arguments, or with an argument string
\* that is not JSON
Malformed(call) == call.name = NoName \/ call.arguments \in {"none", "invalid"}

\* C28: a malformed tool call is fatal before dispatch. The step that takes
\* it up ends the try body with an error, without invoking call_tool and
\* without dispatching it or a later call, and the run that ended with such
\* an error has every opened connection closed.
C28_MalformedCallFatal ==
    /\ [][(pc = "route" /\ Malformed(tool_calls[call_index]))
            => /\ pc' = "finally"
               /\ outcome' \in {"ProtocolError", "ToolDispatchError"}
               /\ in_flight' = {}
               /\ UNCHANGED dispatched]_vars
    /\ []((pc = "done" /\ outcome \in {"ProtocolError", "ToolDispatchError"})
            => \A s \in Servers : Opened(s) => Closed(s))

\* C26: the routing table and the tool-spec list are built once: after the
\* step that builds them no step changes them, before it they are empty, and
\* every loop request sent carried the one full list built from the listings.
C26_RegistryImmutable ==
    /\ [][RegistryBuilt => UNCHANGED <<sessions_by_tool, tool_specs>>]_vars
    /\ [][(sessions_by_tool' # sessions_by_tool \/ tool_specs' # tool_specs)
            => pc = "list_email"]_vars
    /\ [](loop_requests > 0
            => specs_sent = {ToolSpecs(server_tools["crm"], server_tools["email"])})
    /\ [](loop_requests = 0 => specs_sent = {})

\* the loop request of the eighth cycle is out, and all eight carried the
\* list built at the start
C26_Witness ==
    /\ pc = "completion"
    /\ loop_requests = MaxIterations
    /\ specs_sent = {tool_specs}
    /\ tool_specs = CrmTools \o EmailTools

\* the positions of the fragments of a content list that carry a text
TextualAt(content) == { i \in 1..Len(content) : content[i].textual }

\* how many characters of the payload come before the text of fragment i:
\* the earlier texts, each with the line break after it
RECURSIVE Offset(_, _)
Offset(content, i) ==
    IF i <= 1 THEN 0
    ELSE Offset(content, i - 1)
         + (IF content[i - 1].textual THEN Len(content[i - 1].text) + 1 ELSE 0)

\* C29: the payload made of a content list holds the texts of the textual
\* fragments in the order of the list, one after the other with a line break
\* between two of them and nothing else, fragments without text leaving no
\* trace; it is the literal rendering of the list when no fragment has a text
C29_PayloadJoinsTexts ==
    payload_pc # "call_tool" =>
        LET c == result_content
            T == TextualAt(c)
            last == CHOOSE i \in T : \A j \in T : j <= i
        IN  IF T = {} THEN tool_output = Repr(c)
            ELSE /\ \A i \in T :
                        SubSeq(tool_output, Offset(c, i) + 1,
                               Offset(c, i) + Len(c[i].text)) = c[i].text
                 /\ \A i \in T \ {last} :
                        tool_output[Offset(c, i) + Len(c[i].text) + 1] = "\n"
                 /\ Len(tool_output) = Offset(c, last) + Len(c[last].text)

\* two texts around a fragment without text have been joined
C29_Witness ==
    /\ payload_pc = "dispatched"
    /\ result_content = <<Part(TRUE, PlainText), Part(FALSE, <<>>), Part(TRUE, IdText)>>
    /\ tool_output = PlainText \o <<"\n">> \o IdText

\* the payload is the text of a JSON object whose "message_id" is a string
\* of at least one character
ParsesWithId(payload) ==
    /\ ~loads(payload).raised
    /\ loads(payload).value.type = "object"
    /\ loads(payload).value.message_id.type = "string"
    /\ loads(payload).value.message_id.chars # <<>>

\* C30: once the result of a send tool has been handled, exactly one line
\* has been printed and no tool message appended; the line names the message
\* identifier when the payload is a JSON object with a non-empty message_id
\* and is the plain confirmation for every other payload, one that is not
\* JSON included, and the handling has returned in either case
C30_OneConfirmation ==
    (IsTerminalName(result_name) /\ payload_pc \notin {"call_tool", "dispatched"}) =>
        /\ payload_pc = "returned"
        /\ Len(emitted) = 1
        /\ fed_back = <<>>
        /\ IF ParsesWithId(tool_output)
           THEN /\ Contains(emitted[1], loads(tool_output).value.message_id.chars)
                /\ emitted[1] # PlainConfirmation
           ELSE emitted[1] = PlainConfirmation

\* a payload with an identifier on its second line is not JSON as a whole:
\* the plain confirmation was printed for it
C30_Witness ==
    /\ payload_pc = "returned"
    /\ result_name = send_email
    /\ tool_output = PlainText \o <<"\n">> \o IdText
    /\ loads(tool_output).raised
    /\ emitted = <<PlainConfirmation>>

\* the payload of the email server was handled: the line names its identifier
C30_WitnessWithId ==
    /\ payload_pc = "returned"
    /\ result_name = send_email
    /\ result_content = <<Part(TRUE, IdText)>>
    /\ emitted = <<ConfirmationWithId(MessageId)>>

\* a is an initial part of b
IsPrefix(a, b) == Len(a) <= Len(b) /\ SubSeq(b, 1, Len(a)) = a

\* the tool messages of a conversation
ToolMessages(m) == SelectSeq(m, LAMBDA x : x.role = "tool")

\* the call awaiting its result is not a send tool, and its result arrives
NonTerminalReturns ==
    /\ pc = "call_tool"
    /\ ~IsTerminalName(tool_calls[call_index].name)
    /\ pc' # "finally"

\* C21: the conversation only grows at its end; from the first loop request
\* on it starts with the system message followed by the user message that
\* holds the instruction, and it is empty before; the result of a call of a
\* tool other than a send tool appends exactly one message, of role tool and
\* holding that result; the result of a send tool appends nothing; and no
\* other step adds a tool message
C21_AppendOnly ==
    /\ [][IsPrefix(messages, messages')]_vars
    /\ [](pc \in LoopPcs => Len(messages) >= 2)
    /\ [](messages # <<>> =>
            /\ messages[1].role = "system"
            /\ messages[1].content = SystemPrompt
            /\ messages[2].role = "user"
            /\ messages[2].content = InstructionPrefix \o user_input)
    /\ [][NonTerminalReturns =>
            /\ Len(messages') = Len(messages) + 1
            /\ messages'[Len(messages')].role = "tool"
            /\ messages'[Len(messages')].content
                   = ResultOf(iteration, tool_calls[call_index])]_vars
    /\ [][(pc = "call_tool" /\ IsTerminalName(tool_calls[call_index].name))
            => messages' = messages]_vars
    /\ [][ToolMessages(messages') # ToolMessages(messages) => NonTerminalReturns]_vars

\* after a lookup and a send in one response, the conversation holds the
\* two seed messages and the one tool message of the lookup
C21_Witness ==
    /\ pc = "done"
    /\ outcome = "terminal_action"
    /\ ~ChatShape
    /\ script = <<Call(1, get_order, "object"), Call(2, send_email, "object")>>
    /\ Len(messages) = 3
    /\ messages[3].role = "tool"
    /\ messages[3].name = get_order

\* the assistant messages of m before position k that list the call id
Announced(m, k, id) ==
    { j \in 1..(k - 1) :
        /\ m[j].role = "assistant"
        /\ \E i \in 1..Len(m[j].tool_calls) : m[j].tool_calls[i].id = id }

\* C22: a tool message appended when a call's result arrives carries the id
\* and the name of that call, the one given to call_tool last; under the chat
\* shape every tool message stands after an assistant message that lists its
\* id, that assistant message is appended when the response is taken up,
\* before any call of it is dispatched, and a call is dispatched only when
\* the conversation holds an assistant message listing it
C22_ToolMessageAddressed ==
    /\ [][(pc = "call_tool" /\ Len(messages') > Len(messages)) =>
            /\ messages'[Len(messages')].role = "tool"
            /\ messages'[Len(messages')].tool_call_id
                   = CallId(iteration, dispatched[Len(dispatched)])
            /\ dispatched[Len(dispatched)] = tool_calls[call_index].id
            /\ messages'[Len(messages')].name = tool_calls[call_index].name]_vars
    /\ [](ChatShape =>
            \A k \in 1..Len(messages) :
                messages[k].role = "tool" =>
                    Announced(messages, k, messages[k].tool_call_id) # {})
    /\ [][(Len(messages') > Len(messages)
            /\ messages'[Len(messages')].role = "assistant")
            => pc = "completion" /\ dispatched' = <<>>]_vars
    /\ [][(ChatShape /\ Len(dispatched') > Len(dispatched)) =>
            Announced(messages, Len(messages) + 1,
                      CallId(iteration, dispatched'[Len(dispatched')])) # {}]_vars

\* under the chat shape the results of both calls of a response have come
\* back: the assistant message, then one tool message per call, each with
\* its own id
C22_Witness ==
    /\ ChatShape
    /\ pc = "loop_top"
    /\ iteration = 1
    /\ Len(messages) = 5
    /\ messages[3].role = "assistant"
    /\ Len(messages[3].tool_calls) = 2
    /\ messages[4].tool_call_id = CallId(1, 1)
    /\ messages[5].tool_call_id = CallId(1, 2)

\* the ordinary lines a subprocess wrote on a stream, as line messages
WrittenLines(r, s) ==
    [i \in 1..Len(SelectSeq(written[r][s], LAMBDA t : t # LongLine)) |->
        LineMsg(s, SelectSeq(written[r][s], LAMBDA t : t # LongLine)[i])]

\* the line events of a stream an event stream has yielded, the lines of
\* the front-end itself left out
DeliveredLines(r, s) ==
    SelectSeq(delivered[r],
              LAMBDA m : m.type = "line" /\ m.stream = s /\ m # TimeoutLine /\ m # ErrorLine)

\* C31: every line of the subprocess reaches the event stream. A line
\* message that leaves a run queue is yielded as a line event by the run's
\* event stream, whoever else reads the queue; and when the stream has ended
\* with the done event, it has yielded the lines the subprocess wrote on each
\* stream, all of them and in the order written.
C31_LinesDelivered ==
    /\ [][\A r \in RunIds :
            (queue[r] # <<>> /\ Head(queue[r]).type = "line" /\ queue'[r] = Tail(queue[r]))
                => delivered'[r] = Append(delivered[r], Head(queue[r]))]_vars
    /\ [](\A r \in RunIds :
            consumer[r] = "closed" =>
                \A s \in Streams : DeliveredLines(r, s) = WrittenLines(r, s))

\* C32: a stop request for a running subprocess gets the subprocess
\* signalled, whatever the event stream does. As long as a subprocess for
\* which a stop request was accepted is running and no signal was sent to it,
\* the stop message is on the run queue and the control loop is there to take
\* it; and when the stop message leaves the queue in that situation, the stop
\* event is set and SIGTERM is sent.
C32_StopReachesControlLoop ==
    /\ [](\A r \in RunIds :
            (stop_due[r] /\ proc[r] = "running" /\ signal[r] = "none") =>
                /\ ctl[r] = "running"
                /\ \E i \in 1..Len(queue[r]) : queue[r][i] = ControlMsg)
    /\ [][\A r \in RunIds :
            (/\ stop_due[r] /\ proc[r] = "running" /\ signal[r] = "none"
             /\ queue[r] # <<>> /\ Head(queue[r]) = ControlMsg /\ queue'[r] = Tail(queue[r]))
                => stop_requested'[r] /\ signal'[r] = "SIGTERM"]_vars

\* how many done messages a sequence of messages holds
Dones(m) == Len(SelectSeq(m, LAMBDA x : x.type = "done"))

\* the task of the run ended by the exception of the launch or of a pump
EndedByException(r) == task[r] = "done" /\ (proc[r] = "none" \/ PumpRaised(r))

\* C33: one done message per run, last on the queue, and it reaches the
\* event stream. A run queue and its event stream hold at most one done
\* message between them, and exactly one from the end of the task until
\* something takes it; it carries 1 after an exception of the launch or of
\* a pump and the return code of the subprocess otherwise; no line is put
\* on the queue of a run whose task has ended; and a done message that
\* leaves the queue is yielded by the event stream, which then ends.
C33_OneDoneLast ==
    /\ [](\A r \in RunIds : Dones(queue[r]) + Dones(delivered[r]) <= 1)
    /\ [][\A r \in RunIds :
            (task[r] # "done" /\ task'[r] = "done") =>
                /\ Dones(queue'[r]) = 1
                /\ queue'[r][Len(queue'[r])]
                       = DoneMsg(IF EndedByException(r)' THEN 1 ELSE ReturnCode(proc[r]))]_vars
    /\ [][\A r \in RunIds :
            (task[r] = "done" /\ Len(queue'[r]) > Len(queue[r]))
                => queue'[r][Len(queue'[r])].type # "line"]_vars
    /\ [][\A r \in RunIds :
            (queue[r] # <<>> /\ Head(queue[r]).type = "done" /\ queue'[r] = Tail(queue[r]))
                => /\ delivered'[r] = Append(delivered[r], Head(queue[r]))
                   /\ consumer'[r] = "closed"]_vars

\* C34: the marker is cleared on every way out of the task. The step that
\* ends a task, whether after the exit of the subprocess, after the kill at
\* the timeout or after an exception, leaves the marker cleared, and no
\* ended run is the marked one; a POST /run with an acceptable command, when
\* every task has ended, is answered 200 with a new run; and a set marker is
\* always cleared in the end.
C34_MarkerCleared ==
    /\ [](\A r \in RunIds : task[r] = "done" => active_run_id # r)
    /\ [][\A r \in RunIds :
            (task[r] # "done" /\ task'[r] = "done") => active_run_id' = NoRun]_vars
    /\ [][\A c \in ValidCommands :
            (Unfinished = {} /\ PostRun(c))
                => (response'.status = 200 /\ active_run_id' = NewRunId)]_vars
    /\ (active_run_id # NoRun) ~> (active_run_id = NoRun)

\* the first run ended by the exception of the launch, the second by the
\* kill at the timeout, and the third POST /run was accepted
C34_Witness ==
    /\ task[1] = "done"
    /\ proc[1] = "none"
    /\ task[2] = "done"
    /\ proc[2] = "killed"
    /\ active_run_id = 3
    /\ response.status = 200

\* every email of the model, stripped and lowered
Normalised == [e \in Emails \cup StoredEmails |-> lower(strip(e))]

\* the statuses that read cancelled once stripped and lowered
CancelledStatuses ==
    { st \in StoredStatuses \cup {ShippedText} : lower(strip(st)) = CancelledText }

\* order i has the customer email a call names, both stripped and lowered
Matches(i, email) == Normalised[orders[i].customer_email] = Normalised[email]

\* order i is the order a call with this email is about: the first of the
\* file that matches
FirstMatching(i, email) ==
    /\ i \in DOMAIN orders
    /\ Matches(i, email)
    /\ \A j \in 1..(i - 1) : ~Matches(j, email)

StillCancelled(i) == orders[i].status \in CancelledStatuses

\* the events of order i that send_email recorded
ShippingEvents(i) ==
    { k \in DOMAIN orders[i].email_events :
        orders[i].email_events[k].type = "shipping_confirmation" }

\* a step that ships order i and no other: its status becomes shipped and
\* its events gain one sent event with the message id the call returned
ShipsOnly(i) ==
    /\ DOMAIN orders' = DOMAIN orders
    /\ orders'[i].status = ShippedText
    /\ Len(orders'[i].email_events) = Len(orders[i].email_events) + 1
    /\ SubSeq(orders'[i].email_events, 1, Len(orders[i].email_events)) = orders[i].email_events
    /\ LET last == orders'[i].email_events[Len(orders'[i].email_events)]
       IN  /\ last.event = "sent"
           /\ last.type = "shipping_confirmation"
           /\ reply'.ok
           /\ last.message_id = reply'.message_id
    /\ \A j \in DOMAIN orders : j # i => orders'[j] = orders[j]

\* an order cancelled before the first call is still cancelled and has no
\* event of send_email
CancelledUntouched ==
    \A i \in was_cancelled : StillCancelled(i) /\ ShippingEvents(i) = {}

\* send_custom changes the status of no order
CustomKeepsStatus ==
    \A email \in Emails, db \in DbOutcomes :
        SendCustom(email, db) =>
            /\ DOMAIN orders' = DOMAIN orders
            /\ \A i \in DOMAIN orders : orders'[i].status = orders[i].status

====
